---- MODULE Spec2Model ----
(***************************************************************************)
(* PortfolioWrangler: the polling scheduler of server.js, the hot reload   *)
(* of config.yaml (lib/configLoader.js), the price normalisation           *)
(* (lib/priceCalculation.js) and the price_history store (db.js).          *)
(*                                                                         *)
(* A JavaScript value is a tagged record: Num(n), Undefined, JsNull, NaN.  *)
(* Prices are integers; previous closes are chosen so that the percentage  *)
(* (change / previousClose) * 100 is exact.                                *)
(***************************************************************************)
EXTENDS Integers, Sequences, FiniteSets, Bags, TLC

(***************************************************************************)
(* Bounds of the model.                                                    *)
(***************************************************************************)
\* the number of updateStock calls that may be pending at once
MaxInflight == 2
\* config edits are accepted while watchlistVersion is below this
MaxVersion == 2
\* the length of the lists handed to a library function called alone
MaxLen == 3
\* the clock of the file watcher stops here, in milliseconds
MaxTime == 1500

(***************************************************************************)
(* JavaScript values.                                                      *)
(***************************************************************************)
Num(n) == [t |-> "num", v |-> n]
Undefined == [t |-> "undefined"]
JsNull == [t |-> "null"]
NaN == [t |-> "nan"]
PosInf == [t |-> "inf"]
NegInf == [t |-> "-inf"]

IsNum(x) == x.t = "num"
\* ToBoolean of a number-ish value: 0, NaN, null and undefined are falsy
Truthy(x) == IF IsNum(x) THEN x.v # 0 ELSE x.t \in {"inf", "-inf"}
\* a || b
JsOr(a, b) == IF Truthy(a) THEN a ELSE b
\* ToNumber
ToNumber(x) == IF x.t = "null" THEN Num(0) ELSE IF x.t = "undefined" THEN NaN ELSE x
\* a + b on number-ish operands
JsAdd(a, b) ==
    LET x == ToNumber(a)
        y == ToNumber(b)
    IN  IF x.t = "nan" \/ y.t = "nan" THEN NaN
        ELSE IF IsNum(x) /\ IsNum(y) THEN Num(x.v + y.v)
        ELSE IF IsNum(x) THEN y
        ELSE IF IsNum(y) THEN x
        ELSE IF x = y THEN x ELSE NaN
\* (a / b) * 100; exact on the quotes of the model
JsPercent(a, b) ==
    LET x == ToNumber(a)
        y == ToNumber(b)
    IN  IF x.t = "nan" \/ y.t = "nan" THEN NaN
        ELSE IF IsNum(x) /\ IsNum(y)
             THEN IF y.v = 0
                  THEN (IF x.v = 0 THEN NaN ELSE IF x.v > 0 THEN PosInf ELSE NegInf)
                  ELSE IF x.v >= 0 THEN Num((x.v * 100) \div y.v)
                       ELSE Num(0 - (((0 - x.v) * 100) \div y.v))
        ELSE IF IsNum(y) THEN (IF (x.t = "inf") = (y.v >= 0) THEN PosInf ELSE NegInf)
        ELSE IF IsNum(x) THEN Num(0)
        ELSE NaN

(***************************************************************************)
(* lib/priceCalculation.js                                                 *)
(***************************************************************************)
\* a quote of the provider; an absent field is Undefined
Quote(sym, price, prevClose, change, pct, prePrice, preChange, postPrice, postChange, state, exch, fullName) ==
    [symbol |-> sym,
     regularMarketPrice |-> price,
     regularMarketPreviousClose |-> prevClose,
     regularMarketChange |-> change,
     regularMarketChangePercent |-> pct,
     preMarketPrice |-> prePrice,
     preMarketChange |-> preChange,
     postMarketPrice |-> postPrice,
     postMarketChange |-> postChange,
     marketState |-> state,
     exchange |-> exch,
     fullExchangeName |-> fullName]

\* a presence test that looks for null
IsNotNull(x) == x # JsNull
\* x !== undefined
IsPresent(x) == x # Undefined

calculatePriceFromQuote(quote) ==
    LET regularPrice == quote.regularMarketPrice
        previousClose == quote.regularMarketPreviousClose
        regularChange == quote.regularMarketChange
        regularChangePercent == quote.regularMarketChangePercent
        isPreMarket == IsPresent(quote.preMarketPrice)
        isPostMarket == IsPresent(quote.postMarketPrice)
        extendedPrice == IF isPreMarket THEN quote.preMarketPrice
                         ELSE IF isPostMarket THEN quote.postMarketPrice ELSE JsNull
        extendedChange == IF isPreMarket THEN quote.preMarketChange
                          ELSE IF isPostMarket THEN quote.postMarketChange ELSE JsNull
        finalPrice == JsOr(extendedPrice, regularPrice)
        finalChange == JsOr(IF Truthy(extendedPrice) THEN JsAdd(extendedChange, regularChange)
                                                     ELSE regularChange,
                            Num(0))
        finalChangePercent == JsPercent(finalChange, previousClose)
    IN  [finalPrice |-> finalPrice,
         finalChange |-> finalChange,
         finalChangePercent |-> finalChangePercent,
         regularMarketPrice |-> regularPrice,
         regularMarketChange |-> regularChange,
         regularMarketChangePercent |-> regularChangePercent,
         isExtendedHours |-> isPreMarket \/ isPostMarket,
         extendedHoursPrice |-> extendedPrice,
         extendedHoursChange |-> extendedChange,
         marketState |-> quote.marketState]

(***************************************************************************)
(* Exchange names (server.js).                                             *)
(***************************************************************************)
NoString == "<none>"

\* EXCHANGE_DISPLAY[code], NoString where the table has no such key
EXCHANGE_DISPLAY(code) ==
    CASE code \in {"NMS", "NGM", "NCM"} -> "NASDAQ"
      [] code \in {"NYQ", "PCX", "ASE"} -> "NYSE"
      [] code = "LSE" -> "London"
      [] code = "HEL" -> "Helsinki"
      [] code = "STO" -> "Stockholm"
      [] code = "CPH" -> "Copenhagen"
      [] code = "OSL" -> "Oslo"
      [] code = "ETR" -> "XETRA"
      [] code = "PAR" -> "Euronext Paris"
      [] code = "AMS" -> "Euronext AMS"
      [] code = "MCE" -> "Madrid"
      [] code = "MIL" -> "Milan"
      [] code = "SWX" -> "SIX Swiss"
      [] code = "TYO" -> "Tokyo"
      [] code = "OSA" -> "Osaka"
      [] code = "HKG" -> "Hong Kong"
      [] code = "SGX" -> "Singapore"
      [] code = "ASX" -> "ASX"
      [] code = "TAI" -> "Taiwan"
      [] code = "BSE" -> "BSE India"
      [] code = "NSE" -> "NSE India"
      [] code = "TSX" -> "TSX"
      [] code = "SAO" -> "B3"
      [] OTHER -> NoString

\* the code set without the Pink Sheets code
SkipExchangesWithoutPNK ==
    {"OQB", "OTCMKTS", "OTCPK", "OTCQB", "OTCQX", "OBB", "OTC", "OTCBB"}

SKIP_EXCHANGES ==
    {"PNK", "OQB", "OTCMKTS", "OTCPK", "OTCQB", "OTCQX", "OBB", "OTC", "OTCBB"}

\* the characters of a string: the full exchange names of the model, spelled
Spelling(name) ==
    CASE name = "" -> <<>>
      [] name = "NasdaqGS" -> <<"N", "a", "s", "d", "a", "q", "G", "S">>
      [] name = "NYSE" -> <<"N", "Y", "S", "E">>
      [] name = "CCC" -> <<"C", "C", "C">>
      [] name = "Other OTC" -> <<"O", "t", "h", "e", "r", " ", "O", "T", "C">>
      [] name = "Unlisted" -> <<"U", "n", "l", "i", "s", "t", "e", "d">>
      [] name = "OTC Markets" -> <<"O", "T", "C", " ", "M", "a", "r", "k", "e", "t", "s">>
      [] name = "otc markets" -> <<"o", "t", "c", " ", "m", "a", "r", "k", "e", "t", "s">>
      [] name = "Pink Sheets" -> <<"P", "i", "n", "k", " ", "S", "h", "e", "e", "t", "s">>
      [] name = "PINK OPEN MARKET" -> <<"P", "I", "N", "K", " ", "O", "P", "E", "N", " ", "M", "A", "R", "K", "E", "T">>
      [] name = "Otc Pink" -> <<"O", "t", "c", " ", "P", "i", "n", "k">>

UpperCaseLetters ==
    <<"A", "B", "C", "D", "E", "F", "G", "H", "I", "J", "K", "L", "M",
      "N", "O", "P", "Q", "R", "S", "T", "U", "V", "W", "X", "Y", "Z">>
LowerCaseLetters ==
    <<"a", "b", "c", "d", "e", "f", "g", "h", "i", "j", "k", "l", "m",
      "n", "o", "p", "q", "r", "s", "t", "u", "v", "w", "x", "y", "z">>

\* chars.toLowerCase()
toLowerCase(chars) ==
    [i \in 1..Len(chars) |->
       IF \E k \in 1..Len(UpperCaseLetters) : UpperCaseLetters[k] = chars[i]
       THEN LowerCaseLetters[CHOOSE k \in 1..Len(UpperCaseLetters) : UpperCaseLetters[k] = chars[i]]
       ELSE chars[i]]
\* chars.includes(word)
includes(chars, word) ==
    \E i \in 0..(Len(chars) - Len(word)) : SubSeq(chars, i + 1, i + Len(word)) = word

\* name.includes('OTC'), and name.toLowerCase().includes('pink')
NameIncludesOTC(name) == includes(Spelling(name), <<"O", "T", "C">>)
LowerNameIncludesPink(name) == includes(toLowerCase(Spelling(name)), <<"p", "i", "n", "k">>)

isOtcExchange(exchange, fullExchangeName) ==
    IF exchange \in SKIP_EXCHANGES THEN TRUE
    ELSE LET name == IF fullExchangeName = NoString THEN "" ELSE fullExchangeName
         IN  NameIncludesOTC(name) \/ LowerNameIncludesPink(name)

(***************************************************************************)
(* Sequences and Maps.                                                     *)
(***************************************************************************)
Range(s) == {s[i] : i \in 1..Len(s)}

RECURSIVE Filter(_, _)
\* list.filter(x => x \in keep)
Filter(list, keep) ==
    IF list = <<>> THEN <<>>
    ELSE IF Head(list) \in keep THEN <<Head(list)>> \o Filter(Tail(list), keep)
         ELSE Filter(Tail(list), keep)

RECURSIVE Flatten(_)
\* lists.flatMap(x => x)
Flatten(lists) ==
    IF lists = <<>> THEN <<>> ELSE Head(lists) \o Flatten(Tail(lists))

\* a JavaScript Map is a function whose domain is the set of its keys
EmptyMap == [k \in {} |-> 0]
MapSet(m, k, v) == [x \in (DOMAIN m) \cup {k} |-> IF x = k THEN v ELSE m[x]]
\* a loop over the removed symbols that deletes nothing
MapDeleteNone(m, ks) == m
MapDeleteAll(m, ks) == [x \in (DOMAIN m) \ ks |-> m[x]]

(***************************************************************************)
(* lib/configLoader.js                                                     *)
(***************************************************************************)
\* what fs.readFileSync + yaml.load make of config.yaml:
\*   [kind |-> "ENOENT"], [kind |-> "YAMLException"],
\*   [kind |-> "empty"] (yaml.load gives undefined), or a mapping
FileMissing == [kind |-> "ENOENT"]
FileBadYaml == [kind |-> "YAMLException"]
FileEmpty == [kind |-> "empty"]
\* hasSections: the mapping has a sections key; legacy: its watchlist key
Yaml(hasSections, sections, legacy, crypto) ==
    [kind |-> "yaml", hasSections |-> hasSections, sections |-> sections,
     watchlist |-> legacy, crypto |-> crypto]
Section(name, stocks) == [name |-> name, stocks |-> stocks]

\* the crypto entries of the model: s.trim().toUpperCase()
TrimUpper(s) ==
    CASE s = " btc " -> "BTC"
      [] s = "eth" -> "ETH"
      [] s = "   " -> ""
      [] OTHER -> s
\* `${s}-USD`
UsdTicker(s) ==
    CASE s = "BTC" -> "BTC-USD"
      [] s = "ETH" -> "ETH-USD"
      [] OTHER -> "-USD"
\* entries that are not strings (a YAML number)
NonStrings == {"<42>"}

\* a crypto list whose blank and non-string entries are kept
CryptoSymbolsUnfiltered(raw) == [i \in 1..Len(raw) |-> TrimUpper(raw[i])]

RECURSIVE CryptoSymbols(_)
CryptoSymbols(raw) ==
    IF raw = <<>> THEN <<>>
    ELSE IF Head(raw) \notin NonStrings /\ TrimUpper(Head(raw)) # ""
         THEN <<TrimUpper(Head(raw))>> \o CryptoSymbols(Tail(raw))
         ELSE CryptoSymbols(Tail(raw))

\* a read or a parse that throws nothing
LoadNeverThrows(file) == FALSE
\* fs.readFileSync throws ENOENT, yaml.load throws a YAMLException
LoadThrows(file) == file.kind \in {"ENOENT", "YAMLException"}

parseConfigFile(file) ==
    LET isMap == file.kind = "yaml"
        sections == IF isMap /\ file.hasSections
                    THEN [i \in 1..Len(file.sections) |->
                            Section(file.sections[i].name, file.sections[i].stocks)]
                    ELSE <<Section(NoString, IF isMap THEN file.watchlist ELSE <<>>)>>
        rawCrypto == IF isMap THEN file.crypto ELSE <<>>
        cryptoSymbols == CryptoSymbols(rawCrypto)
        cryptoTickers == [i \in 1..Len(cryptoSymbols) |-> UsdTicker(cryptoSymbols[i])]
    IN  [threw |-> LoadThrows(file),
         sections |-> sections,
         watchlist |-> cryptoTickers \o Flatten([i \in 1..Len(sections) |-> sections[i].stocks]),
         config |-> file,
         cryptoSymbols |-> cryptoSymbols,
         cryptoTickers |-> cryptoTickers]

\* a diff that compares the lists element by element
diffWatchlistOrdered(oldList, newList) ==
    [added |-> Filter(newList, Range(newList) \ Range(oldList)),
     removed |-> Filter(oldList, Range(oldList) \ Range(newList)),
     changed |-> oldList # newList]

\* a diff that is changed only by additions
diffWatchlistAddedOnly(oldList, newList) ==
    [added |-> Filter(newList, Range(newList) \ Range(oldList)),
     removed |-> Filter(oldList, Range(oldList) \ Range(newList)),
     changed |-> Len(Filter(newList, Range(newList) \ Range(oldList))) > 0]

diffWatchlist(oldList, newList) ==
    LET oldSet == Range(oldList)
        newSet == Range(newList)
        added == Filter(newList, Range(newList) \ oldSet)
        removed == Filter(oldList, Range(oldList) \ newSet)
    IN  [added |-> added,
         removed |-> removed,
         changed |-> Len(added) > 0 \/ Len(removed) > 0]

(***************************************************************************)
(* The world of the model: config files, symbols and quotes.               *)
(***************************************************************************)
CfgTech == Yaml(TRUE, <<Section("Tech", <<"AAPL", "TSLA">>)>>, <<>>, <<>>)
CfgSwapped == Yaml(TRUE, <<Section("Cars", <<"TSLA">>), Section(NoString, <<"AAPL">>)>>, <<>>, <<>>)
CfgLegacy == Yaml(FALSE, <<>>, <<"AAPL">>, <<>>)
\* a watchlist with a symbol that trades over the counter (not among Files)
CfgOtc == Yaml(TRUE, <<Section("Pink", <<"OTCX", "AAPL">>)>>, <<>>, <<>>)

\* the contents config.yaml takes
Files == {FileMissing, FileBadYaml, FileEmpty, CfgTech, CfgSwapped, CfgLegacy}

\* watchlist[i] of an index outside the list, and a Map key undefined
NoSymbol == "<undefined>"

\* the quotes the provider may answer with for a symbol
QuotesOf(symbol) ==
    CASE symbol = "AAPL" ->
           {Quote("AAPL", Num(100), Num(50), Num(2), Num(4), Undefined, Undefined,
                  Undefined, Undefined, "REGULAR", "NMS", "NasdaqGS")}
      [] symbol = "TSLA" ->
           {Quote("TSLA", Num(200), Num(50), Num(-1), Num(-2), Undefined, Undefined,
                  Num(201), Num(1), "POST", "NYQ", "NYSE")}
      [] symbol = "OTCX" ->
           {Quote("OTCX", Num(3), Num(50), Num(1), Num(2), Undefined, Undefined,
                  Undefined, Undefined, state, "PNK", fullName) :
              state \in {"REGULAR", "CLOSED", "PRE"},
              fullName \in {"Other OTC", "Unlisted", NoString}}
      [] OTHER -> {}

(***************************************************************************)
(* State.                                                                  *)
(***************************************************************************)
VARIABLES
    phase,            \* "boot": server.js not yet evaluated; "running"; "exited"; "crashed"
    listening,        \* the app.listen callback has run (watchConfigFile)
    configFile,       \* the content of config.yaml
    debounceTimer,    \* the setTimeout of onConfigChange is pending
    watchlist,        \* let watchlist
    config,           \* let config
    watchlistVersion, \* let watchlistVersion
    marketStates,     \* Map displayName -> {displayName, marketState}
    latestPrices,     \* Map symbol -> cache record
    db,               \* let db: FALSE while undefined
    history,          \* price_history: <<symbol, timestamp>> -> row
    now,              \* the clock, in units of the timestamp
    updateInterval,   \* let updateInterval: 0 while undefined, else a timer id
    timers,           \* the interval timers that are armed
    closures,         \* per call of calculateUpdateSchedule: stockCount, currentIndex
    calls,            \* the pending updateStock calls, a bag
    seeds,            \* the pending loadInitialPricesForSymbols loops
    uncaught,         \* exceptions that escaped a scheduler callback
    last,             \* the step just taken, if a call failed or the config was reloaded
    tickLog,          \* the symbols the latest ticks asked for, oldest first
    snapshot,         \* SpecPrice: the quote handed to calculatePriceFromQuote
    normalized,       \* SpecPrice: what calculatePriceFromQuote returned for it
    response,         \* what GET /api/stock/:symbol answered last
    input,            \* the arguments a library function is called with
    output,           \* what the function returned for them
    timeouts,         \* watchConfigFile: the due times of the pending setTimeout timers
    debounceHandle,   \* watchConfigFile: the timer debounceTimer refers to, by its due time
    firstChange,      \* the instant of the first change event of the current burst
    lastChange,       \* the instant of the latest change event of config.yaml
    reloadsSince,     \* the loadConfig() calls of the watcher since that event
    watching,         \* startWatcher: an fs.watch watcher of config.yaml is open
    restarts          \* the due times of the pending setTimeout(startWatcher, ...)

vars == <<phase, listening, configFile, debounceTimer, watchlist, config,
          watchlistVersion, marketStates, latestPrices, db, history, now,
          updateInterval, timers, closures, calls, seeds, uncaught, last, tickLog,
          snapshot, normalized, response, input, output,
          timeouts, debounceHandle, firstChange, lastChange, reloadsSince,
          watching, restarts>>

\* the variables of the server, and those of the price normalisation alone
serverVars == <<phase, listening, configFile, debounceTimer, watchlist, config,
                watchlistVersion, marketStates, latestPrices, db, history, now,
                updateInterval, timers, closures, calls, seeds, uncaught, last, tickLog>>
priceVars == <<snapshot, normalized>>
\* the variable of the API
apiVars == <<response>>
\* no snapshot, no result
NoQuote == [symbol |-> NoString]
NoPriceData == [marketState |-> NoString]
\* no request answered yet
NoResponse == [status |-> 0]
\* the variables of a library function called alone
pureVars == <<input, output>>
\* no call yet
NoInput == [function |-> NoString]
NoOutput == [function |-> NoString]
\* the variables of the debounce of the file watcher, and all of the watcher's
debounceVars == <<timeouts, debounceHandle, firstChange, lastChange, reloadsSince>>
watcherVars == <<timeouts, debounceHandle, firstChange, lastChange, reloadsSince,
                 watching, restarts>>
\* null, and no instant
NoTimer == -1
Never == -1
\* what the specifications of the other parts leave alone
InitPure == input = NoInput /\ output = NoOutput
InitWatcher ==
    /\ timeouts = {}
    /\ debounceHandle = NoTimer
    /\ firstChange = Never
    /\ lastChange = Never
    /\ reloadsSince = 0
    /\ watching = FALSE
    /\ restarts = {}

\* let config, before the first load
NoConfig == [kind |-> "undefined"]

\* the calls that are pending, and their number
Pending == BagToSet(calls)
InFlight == BagCardinality(calls)
Issue(c) == calls (+) SetToBag({c})
Settle(c) == calls (-) SetToBag({c})

\* the value of last after a step op about a call of this kind and symbol
Step(op, kind, symbol) == [op |-> op, kind |-> kind, symbol |-> symbol]
StepOf(op) == Step(op, "", "")

\* the last n elements of a sequence
LastN(seq, n) == IF Len(seq) <= n THEN seq ELSE SubSeq(seq, Len(seq) - n + 1, Len(seq))

\* list[i] of JavaScript, i counted from 0
At(list, i) == IF i + 1 \in 1..Len(list) THEN list[i + 1] ELSE NoSymbol

Init ==
    /\ phase = "boot"
    /\ listening = FALSE
    /\ configFile \in Files
    /\ debounceTimer = FALSE
    /\ watchlist = <<>>
    /\ config = NoConfig
    /\ watchlistVersion = 0
    /\ marketStates = EmptyMap
    /\ latestPrices = EmptyMap
    /\ db = FALSE
    /\ history = EmptyMap
    /\ now = 0
    /\ updateInterval = 0
    /\ timers = {}
    /\ closures = <<>>
    /\ calls = EmptyBag
    /\ seeds = <<>>
    /\ uncaught = 0
    /\ last = StepOf("")
    /\ tickLog = <<>>
    /\ snapshot = NoQuote
    /\ normalized = NoPriceData
    /\ response = NoResponse
    /\ InitPure
    /\ InitWatcher

(***************************************************************************)
(* db.js: the price_history table, PRIMARY KEY (symbol, timestamp).        *)
(***************************************************************************)
\* the default limit of getPriceHistory
HistoryLimit == 100

\* what SQLite stores for a bound JavaScript value: NaN and undefined are NULL
ToSql(x) == IF x.t \in {"nan", "undefined"} THEN JsNull ELSE x

\* INSERT OR REPLACE INTO price_history
addPriceHistory(table, timestamp, symbol, price, change, changePercent) ==
    MapSet(table, <<symbol, timestamp>>,
           [symbol |-> symbol, timestamp |-> timestamp, price |-> ToSql(price),
            change |-> ToSql(change), change_percent |-> ToSql(changePercent)])

RECURSIVE OrderDesc(_)
\* the timestamps of a set, greatest first
OrderDesc(ts) ==
    IF ts = {} THEN <<>>
    ELSE LET m == CHOOSE x \in ts : \A y \in ts : y <= x
         IN  <<m>> \o OrderDesc(ts \ {m})

\* SELECT * ... WHERE symbol = ? ORDER BY timestamp DESC LIMIT ?
getPriceHistory(table, symbol, limit) ==
    LET ts == OrderDesc({k[2] : k \in {x \in DOMAIN table : x[1] = symbol}})
        n == IF Len(ts) < limit THEN Len(ts) ELSE limit
    IN  [i \in 1..n |-> table[<<symbol, ts[i]>>]]

(***************************************************************************)
(* server.js: the scheduler.                                               *)
(***************************************************************************)
\* str && ... of a string or null
TruthyString(str) == str # NoString /\ str # ""

\* what updateStock returns for a quote
StockResult(quote) ==
    LET priceData == calculatePriceFromQuote(quote)
    IN  [price |-> priceData.finalPrice,
         change |-> priceData.finalChange,
         changePercent |-> priceData.finalChangePercent,
         regularMarketPrice |-> priceData.regularMarketPrice,
         regularMarketChange |-> priceData.regularMarketChange,
         regularMarketChangePercent |-> priceData.regularMarketChangePercent,
         isExtendedHours |-> priceData.isExtendedHours,
         extendedHoursPrice |-> priceData.extendedHoursPrice,
         extendedHoursChange |-> priceData.extendedHoursChange,
         marketState |-> priceData.marketState,
         exchange |-> quote.exchange,
         fullExchangeName |-> quote.fullExchangeName]

\* the outcome of an async call: it threw, or it returned a value
Returned(value) == [threw |-> FALSE, value |-> value]
Thrown == [threw |-> TRUE, value |-> JsNull]

\* an updateStock without its try/catch: the error goes to the caller
updateStockRethrow(outcome) == outcome
\* try { ... } catch (error) { return null } of updateStock
updateStockCatch(outcome) == IF outcome.threw THEN Returned(JsNull) ELSE outcome

\* a display name that is always the raw code
DisplayRawCode(result) == result.exchange

\* displayName of recordStockResult
DisplayName(result) ==
    IF EXCHANGE_DISPLAY(result.exchange) # NoString THEN EXCHANGE_DISPLAY(result.exchange)
    ELSE IF result.fullExchangeName # NoString THEN result.fullExchangeName
    ELSE result.exchange

\* recordStockResult: the two maps afterwards
recordStockResult(symbol, result) ==
    [latestPrices |-> MapSet(latestPrices, symbol, result),
     marketStates |->
        IF /\ TruthyString(result.exchange)
           /\ TruthyString(result.marketState)
           /\ ~isOtcExchange(result.exchange, result.fullExchangeName)
        THEN MapSet(marketStates, DisplayName(result),
                    [displayName |-> DisplayName(result), marketState |-> result.marketState])
        ELSE marketStates]

\* currentIndex = (currentIndex + 1) % stockCount
advanceCursor(currentIndex, stockCount) == (currentIndex + 1) % stockCount

NewCall(kind, closure, symbol) ==
    [kind |-> kind, closure |-> closure, symbol |-> symbol, stage |-> "quote",
     result |-> JsNull, timestamp |-> 0]

\* a calculateUpdateSchedule that arms its timer without clearInterval
calculateUpdateScheduleNoClear(wl) ==
    IF Len(wl) = 0
    THEN UNCHANGED <<updateInterval, timers, closures, calls, tickLog>>
    ELSE LET id == Len(closures) + 1
         IN  /\ timers' = timers \cup {id}
             /\ updateInterval' = id
             /\ closures' = Append(closures, [stockCount |-> Len(wl), currentIndex |-> 0])
             /\ calls' = Issue(NewCall("first", id, At(wl, 0)))
             /\ tickLog' = <<>>

\* calculateUpdateSchedule, called when the module-level watchlist is wl
calculateUpdateSchedule(wl) ==
    IF Len(wl) = 0
    THEN UNCHANGED <<updateInterval, timers, closures, calls, tickLog>>
    ELSE LET id == Len(closures) + 1
         IN  /\ timers' = (IF updateInterval # 0 THEN timers \ {updateInterval} ELSE timers)
                             \cup {id}
             /\ updateInterval' = id
             /\ closures' = Append(closures, [stockCount |-> Len(wl), currentIndex |-> 0])
             /\ calls' = Issue(NewCall("first", id, At(wl, 0)))
             /\ tickLog' = <<>>

\* calculateUpdateSchedule has room for its immediate call
CanSchedule(wl) == Len(wl) = 0 \/ InFlight < MaxInflight

\* the callback of setInterval starts: updateStock(watchlist[currentIndex])
TickFire(g) ==
    /\ UNCHANGED <<priceVars, apiVars, pureVars, watcherVars>>
    /\ phase = "running"
    /\ g \in timers
    /\ InFlight < MaxInflight
    /\ LET symbol == At(watchlist, closures[g].currentIndex)
       IN  /\ calls' = Issue(NewCall("tick", g, symbol))
           /\ last' = StepOf("")
           /\ tickLog' = LastN(Append(tickLog, symbol), closures[g].stockCount)
    /\ UNCHANGED <<phase, listening, configFile, debounceTimer, watchlist, config,
                   watchlistVersion, marketStates, latestPrices, db, history, now,
                   updateInterval, timers, closures, seeds, uncaught>>

\* the caller of updateStock resumes with its outcome: the interval callback
\* (record, then advance the cursor) or the .then of the immediate call
Resume(c, outcome) ==
    LET symbol == IF c.kind = "tick" THEN c.symbol ELSE At(watchlist, 0)
        rec == recordStockResult(symbol, outcome.value)
    IN  /\ calls' = Settle(c)
        /\ IF outcome.threw
           THEN /\ uncaught' = uncaught + 1
                /\ UNCHANGED <<latestPrices, marketStates, closures>>
           ELSE /\ uncaught' = uncaught
                /\ IF outcome.value # JsNull
                   THEN /\ latestPrices' = rec.latestPrices
                        /\ marketStates' = rec.marketStates
                   ELSE UNCHANGED <<latestPrices, marketStates>>
                /\ IF c.kind = "tick"
                   THEN closures' = [closures EXCEPT ![c.closure].currentIndex =
                                        advanceCursor(@, closures[c.closure].stockCount)]
                   ELSE UNCHANGED closures

\* yahooFinance.quote rejects, or resolves to nothing
QuoteRejected(c) ==
    /\ UNCHANGED <<priceVars, apiVars, pureVars, watcherVars>>
    /\ c \in Pending
    /\ c.stage = "quote"
    /\ Resume(c, updateStockCatch(Thrown))
    /\ last' = Step("quoteRejected", c.kind, c.symbol)
    /\ UNCHANGED <<phase, listening, configFile, debounceTimer, watchlist, config,
                   watchlistVersion, db, history, now, updateInterval, timers, seeds,
                   tickLog>>

\* yahooFinance.quote resolves to q while db is still undefined:
\* addPriceHistory throws on db.run
QuoteResolvedNoDb(c, q) ==
    /\ UNCHANGED <<priceVars, apiVars, pureVars, watcherVars>>
    /\ c \in Pending
    /\ c.stage = "quote"
    /\ q \in QuotesOf(c.symbol)
    /\ ~db
    /\ Resume(c, updateStockCatch(Thrown))
    /\ last' = StepOf("")
    /\ UNCHANGED <<phase, listening, configFile, debounceTimer, watchlist, config,
                   watchlistVersion, db, history, now, updateInterval, timers, seeds,
                   tickLog>>

\* yahooFinance.quote resolves to q: addPriceHistory takes its timestamp and
\* issues the INSERT
QuoteResolved(c, q) ==
    /\ UNCHANGED <<priceVars, apiVars, pureVars, watcherVars>>
    /\ c \in Pending
    /\ c.stage = "quote"
    /\ q \in QuotesOf(c.symbol)
    /\ db
    /\ calls' = Settle(c) (+) SetToBag({[c EXCEPT !.stage = "db", !.result = StockResult(q),
                                                       !.timestamp = now]})
    /\ last' = StepOf("")
    /\ UNCHANGED <<phase, listening, configFile, debounceTimer, watchlist, config,
                   watchlistVersion, marketStates, latestPrices, db, history, now,
                   updateInterval, timers, closures, seeds, uncaught, tickLog>>

\* db.run settles: the row is stored and updateStock returns its result, or
\* the statement fails and updateStock returns null
WriteSettled(c, ok) ==
    /\ UNCHANGED <<priceVars, apiVars, pureVars, watcherVars>>
    /\ c \in Pending
    /\ c.stage = "db"
    /\ history' = IF ok
                  THEN addPriceHistory(history, c.timestamp, c.symbol,
                                       c.result.price, c.result.change,
                                       c.result.changePercent)
                  ELSE history
    /\ Resume(c, updateStockCatch(IF ok THEN Returned(c.result) ELSE Thrown))
    /\ last' = IF ok THEN StepOf("") ELSE Step("writeFailed", c.kind, c.symbol)
    /\ UNCHANGED <<phase, listening, configFile, debounceTimer, watchlist, config,
                   watchlistVersion, db, now, updateInterval, timers, seeds, tickLog>>

(***************************************************************************)
(* server.js: seeding the cache from the store.                            *)
(***************************************************************************)
\* row.name of a row object
RowField(row, name) == IF name \in DOMAIN row THEN row[name] ELSE Undefined

\* loadInitialPricesForSymbols(symbols) is called: with db undefined every
\* getPriceHistory throws and the loop ends at once; otherwise the loop is
\* pending on the read of its first symbol
loadInitialPricesForSymbols(symbols, dbReady) ==
    IF dbReady /\ symbols # <<>> THEN Append(seeds, symbols) ELSE seeds

\* the cache after the read of symbol resolved to rows
SeedCache(symbol, rows) ==
    IF Len(rows) > 0
    THEN LET latest == rows[Len(rows)]
         IN  MapSet(latestPrices, symbol,
                    [price |-> RowField(latest, "price"),
                     change |-> RowField(latest, "change"),
                     changePercent |-> RowField(latest, "changePercent"),
                     timestamp |-> RowField(latest, "timestamp")])
    ELSE latestPrices

\* the getPriceHistory of loop i settles; the loop goes on to its next symbol
SeedSettled(i, ok) ==
    /\ UNCHANGED <<priceVars, apiVars, pureVars, watcherVars>>
    /\ i \in 1..Len(seeds)
    /\ LET symbol == Head(seeds[i])
           rest == Tail(seeds[i])
       IN  /\ latestPrices' = IF ok
                              THEN SeedCache(symbol, getPriceHistory(history, symbol, HistoryLimit))
                              ELSE latestPrices
           /\ seeds' = IF rest = <<>>
                       THEN SubSeq(seeds, 1, i - 1) \o SubSeq(seeds, i + 1, Len(seeds))
                       ELSE [seeds EXCEPT ![i] = rest]
           /\ last' = StepOf("")
    /\ UNCHANGED <<phase, listening, configFile, debounceTimer, watchlist, config,
                   watchlistVersion, marketStates, db, history, now,
                   updateInterval, timers, closures, calls, uncaught, tickLog>>

(***************************************************************************)
(* server.js: module evaluation, loadConfig, the file watcher.             *)
(***************************************************************************)
\* a load that forgets the increment
keepVersion(version) == version
\* watchlistVersion++
bumpVersion(version) == version + 1

\* an initial load whose failure is only logged
keepRunning == "running"
\* if (initial) process.exit(1)
processExit == "exited"

\* node evaluates server.js: loadConfig({initial: true}), PORT,
\* calculateUpdateSchedule(), app.listen(); envPort: process.env.PORT is set
ModuleLoad(envPort) ==
    /\ UNCHANGED <<priceVars, apiVars, pureVars, watcherVars>>
    /\ phase = "boot"
    /\ LET result == parseConfigFile(configFile)
       IN  IF result.threw
           THEN /\ phase' = processExit
                /\ last' = StepOf("")
                /\ UNCHANGED <<watchlist, config, watchlistVersion,
                               updateInterval, timers, closures, calls, tickLog>>
           ELSE /\ watchlist' = result.watchlist
                /\ config' = result.config
                /\ watchlistVersion' = bumpVersion(watchlistVersion)
                /\ IF ~envPort /\ result.config.kind = "empty"
                   THEN \* config.server of undefined
                        /\ phase' = "crashed"
                        /\ last' = StepOf("")
                        /\ UNCHANGED <<updateInterval, timers, closures, calls, tickLog>>
                   ELSE /\ phase' = "running"
                        /\ last' = StepOf("")
                        /\ CanSchedule(result.watchlist)
                        /\ calculateUpdateSchedule(result.watchlist)
    /\ UNCHANGED <<listening, configFile, debounceTimer, marketStates, latestPrices,
                   db, history, now, seeds, uncaught>>

\* initializeDatabase resolves: db is set and the watchlist is seeded
DbReady ==
    /\ UNCHANGED <<priceVars, apiVars, pureVars, watcherVars>>
    /\ phase = "running"
    /\ ~db
    /\ db' = TRUE
    /\ seeds' = loadInitialPricesForSymbols(watchlist, TRUE)
    /\ last' = StepOf("")
    /\ UNCHANGED <<phase, listening, configFile, debounceTimer, watchlist, config,
                   watchlistVersion, marketStates, latestPrices, history, now,
                   updateInterval, timers, closures, calls, uncaught, tickLog>>

\* the callback of app.listen: watchConfigFile()
ListenCallback ==
    /\ UNCHANGED <<priceVars, apiVars, pureVars, debounceVars, restarts>>
    /\ phase = "running"
    /\ ~listening
    /\ listening' = TRUE
    /\ watching' = TRUE
    /\ last' = StepOf("")
    /\ UNCHANGED <<phase, configFile, debounceTimer, watchlist, config,
                   watchlistVersion, marketStates, latestPrices, db, history, now,
                   updateInterval, timers, closures, calls, seeds, uncaught, tickLog>>

\* somebody writes config.yaml and the watcher (re)starts the debounce timer;
\* a write before the watcher exists is seen by nobody until a later write
EditFile(f) ==
    /\ UNCHANGED <<priceVars, apiVars, pureVars, watcherVars>>
    /\ phase = "running"
    /\ listening
    /\ watchlistVersion < MaxVersion
    /\ f \in Files
    /\ configFile' = f
    /\ debounceTimer' = TRUE
    /\ last' = StepOf("")
    /\ UNCHANGED <<phase, listening, watchlist, config,
                   watchlistVersion, marketStates, latestPrices, db, history, now,
                   updateInterval, timers, closures, calls, seeds, uncaught, tickLog>>

\* loadConfig(): parse config.yaml, and on a changed watchlist drop what was
\* removed, clear the market states, seed what was added and reschedule
loadConfigBody ==
    /\ LET result == parseConfigFile(configFile)
           diff == diffWatchlist(watchlist, result.watchlist)
       IN  IF result.threw
           THEN /\ last' = StepOf("reloadFailed")
                /\ UNCHANGED <<watchlist, config, watchlistVersion, marketStates,
                               latestPrices, updateInterval, timers, closures, calls,
                               seeds, tickLog>>
           ELSE IF ~diff.changed
           THEN /\ last' = StepOf("reloadSame")
                /\ UNCHANGED <<watchlist, config, watchlistVersion, marketStates,
                               latestPrices, updateInterval, timers, closures, calls,
                               seeds, tickLog>>
           ELSE /\ last' = StepOf("reloadChanged")
                /\ latestPrices' = MapDeleteAll(latestPrices, Range(diff.removed))
                /\ marketStates' = EmptyMap
                /\ seeds' = loadInitialPricesForSymbols(diff.added, db)
                /\ watchlist' = result.watchlist
                /\ config' = result.config
                /\ watchlistVersion' = bumpVersion(watchlistVersion)
                /\ CanSchedule(result.watchlist)
                /\ calculateUpdateSchedule(result.watchlist)
    /\ UNCHANGED <<phase, listening, configFile, db, history, now, uncaught>>


\* the debounce timer fires: loadConfig()
loadConfig ==
    /\ UNCHANGED <<priceVars, apiVars, pureVars, watcherVars>>
    /\ phase = "running"
    /\ debounceTimer
    /\ debounceTimer' = FALSE
    /\ loadConfigBody
Next ==
    \/ \E envPort \in BOOLEAN : ModuleLoad(envPort)
    \/ DbReady
    \/ ListenCallback
    \/ \E f \in Files : EditFile(f)
    \/ loadConfig
    \/ \E g \in timers : TickFire(g)
    \/ \E c \in Pending : QuoteRejected(c)
    \/ \E c \in Pending : \E q \in QuotesOf(c.symbol) : QuoteResolvedNoDb(c, q)
    \/ \E c \in Pending : \E q \in QuotesOf(c.symbol) : QuoteResolved(c, q)
    \/ \E c \in Pending, ok \in BOOLEAN : WriteSettled(c, ok)
    \/ \E i \in 1..Len(seeds), ok \in BOOLEAN : SeedSettled(i, ok)

Spec == Init /\ [][Next]_vars


(***************************************************************************)
(* The price normalisation alone: calculatePriceFromQuote applied to the   *)
(* snapshots the provider may return.                                      *)
(***************************************************************************)
\* the numbers a snapshot carries
RegularPrices == {Num(100), Num(0)}
PreviousCloses == {Num(50), Num(0), Undefined}
RegularChanges == {Num(2), Num(0), Num(-1)}
ExtendedPrices == {Num(101), Num(0)}
ExtendedChanges == {Num(1), Num(-2), Undefined}

\* the snapshots: the regular fields, and the pre-market fields or the
\* post-market fields or neither, never both
Snapshots ==
    LET regular == {Quote("XYZ", p, pc, c, Num(4), Undefined, Undefined, Undefined, Undefined,
                          "REGULAR", "NMS", "NasdaqGS") :
                      p \in RegularPrices, pc \in PreviousCloses, c \in RegularChanges}
    IN  regular
        \cup {[r EXCEPT !.preMarketPrice = ep, !.preMarketChange = ec, !.marketState = "PRE"] :
                r \in regular, ep \in ExtendedPrices, ec \in ExtendedChanges}
        \cup {[r EXCEPT !.postMarketPrice = ep, !.postMarketChange = ec, !.marketState = "POST"] :
                r \in regular, ep \in ExtendedPrices, ec \in ExtendedChanges}

InitPrice ==
    /\ snapshot \in Snapshots
    /\ normalized = NoPriceData
    /\ response = NoResponse
    /\ InitPure
    /\ InitWatcher
    /\ phase = "running"
    /\ listening = FALSE
    /\ configFile = CfgTech
    /\ debounceTimer = FALSE
    /\ watchlist = <<>>
    /\ config = NoConfig
    /\ watchlistVersion = 0
    /\ marketStates = EmptyMap
    /\ latestPrices = EmptyMap
    /\ db = FALSE
    /\ history = EmptyMap
    /\ now = 0
    /\ updateInterval = 0
    /\ timers = {}
    /\ closures = <<>>
    /\ calls = EmptyBag
    /\ seeds = <<>>
    /\ uncaught = 0
    /\ last = StepOf("")
    /\ tickLog = <<>>

\* const priceData = calculatePriceFromQuote(quote)
Normalize ==
    /\ normalized = NoPriceData
    /\ normalized' = calculatePriceFromQuote(snapshot)
    /\ UNCHANGED snapshot
    /\ UNCHANGED serverVars
    /\ UNCHANGED <<apiVars, pureVars, watcherVars>>

NextPrice == Normalize

SpecPrice == InitPrice /\ [][NextPrice]_vars

(***************************************************************************)
(* The server started on a store that an earlier run has filled: the       *)
(* seeding of the cache at startup and on reload.                          *)
(***************************************************************************)
\* the instants at which the earlier run stored an entry
StoredTimes == {0, 1, 2}
\* the record the earlier run stored at instant t
StoredPrice(t) == Num(100 + t)
StoredChange(t) == Num(t - 1)
StoredPercent(t) == Num(2 * t - 2)

RECURSIVE Persisted(_)
\* the table after addPriceHistory of the records of the keys <<symbol, t>>
Persisted(keys) ==
    IF keys = {} THEN EmptyMap
    ELSE LET k == CHOOSE x \in keys : TRUE
         IN  addPriceHistory(Persisted(keys \ {k}), k[2], k[1],
                             StoredPrice(k[2]), StoredChange(k[2]), StoredPercent(k[2]))

\* the stores the server may find
Stores == {Persisted(keys) : keys \in SUBSET (({"AAPL"} \X StoredTimes) \cup {<<"TSLA", 1>>})}

InitSeed ==
    /\ phase = "boot"
    /\ listening = FALSE
    /\ configFile \in Files
    /\ debounceTimer = FALSE
    /\ watchlist = <<>>
    /\ config = NoConfig
    /\ watchlistVersion = 0
    /\ marketStates = EmptyMap
    /\ latestPrices = EmptyMap
    /\ db = FALSE
    /\ history \in Stores
    /\ now = 3
    /\ updateInterval = 0
    /\ timers = {}
    /\ closures = <<>>
    /\ calls = EmptyBag
    /\ seeds = <<>>
    /\ uncaught = 0
    /\ last = StepOf("")
    /\ tickLog = <<>>
    /\ snapshot = NoQuote
    /\ normalized = NoPriceData
    /\ response = NoResponse
    /\ InitPure
    /\ InitWatcher

NextSeed ==
    \/ \E envPort \in BOOLEAN : ModuleLoad(envPort)
    \/ DbReady
    \/ ListenCallback
    \/ \E f \in Files : EditFile(f)
    \/ loadConfig
    \/ \E i \in 1..Len(seeds), ok \in BOOLEAN : SeedSettled(i, ok)

SpecSeed == InitSeed /\ [][NextSeed]_vars

(***************************************************************************)
(* server.js: GET /api/stock/:symbol, on the server started on a filled    *)
(* store.                                                                  *)
(***************************************************************************)
\* x.toString() of a number; of null or undefined a TypeError
numberToString(x) ==
    CASE IsNum(x) -> Returned(ToString(x.v))
      [] x = NaN -> Returned("NaN")
      [] x = PosInf -> Returned("Infinity")
      [] x = NegInf -> Returned("-Infinity")
      [] OTHER -> Thrown

\* x.toFixed(2) + '%' of a number (the numbers of the model are whole)
toFixedPercent(x) ==
    CASE IsNum(x) -> Returned(ToString(x.v) \o ".00%")
      [] x = NaN -> Returned("NaN%")
      [] x = PosInf -> Returned("Infinity%")
      [] x = NegInf -> Returned("-Infinity%")
      [] OTHER -> Thrown

\* JSON.stringify of a number-ish value: NaN and the infinities become null
\* (a property that is undefined is left out)
ToJson(x) == IF x.t \in {"nan", "inf", "-inf"} THEN JsNull ELSE x

\* the object with 'Global Quote' and extendedHours, or the TypeError
ApiObject(price, change, changePercent, isExtendedHours, extPrice, extChange, marketState, companyName, fromCache) ==
    LET p == numberToString(price)
        c == numberToString(change)
        q == toFixedPercent(changePercent)
    IN  IF p.threw \/ c.threw \/ q.threw THEN Thrown
        ELSE Returned([price |-> p.value, change |-> c.value, changePercent |-> q.value,
                       isExtendedHours |-> isExtendedHours,
                       extendedHoursPrice |-> extPrice,
                       extendedHoursChange |-> extChange,
                       marketState |-> marketState,
                       companyName |-> companyName,
                       fromCache |-> fromCache])

\* the quotes of the model carry no longName and no shortName
formatApiResponse(quote) ==
    LET priceData == calculatePriceFromQuote(quote)
    IN  ApiObject(priceData.finalPrice, priceData.finalChange, priceData.finalChangePercent,
                  priceData.isExtendedHours, priceData.extendedHoursPrice,
                  priceData.extendedHoursChange, priceData.marketState, quote.symbol, FALSE)

formatCachedResponse(symbol, cachedData) ==
    ApiObject(cachedData.price, cachedData.change, cachedData.changePercent,
              FALSE, JsNull, JsNull, "CLOSED", symbol, TRUE)

\* res.json(body), and res.status(500).json({error})
Ok(body) ==
    [status |-> 200,
     body |-> [body EXCEPT !.extendedHoursPrice = ToJson(@), !.extendedHoursChange = ToJson(@)]]
Failed == [status |-> 500, body |-> [error |-> "Failed to fetch stock data"]]

\* the symbols that are asked for
ApiSymbols == {"AAPL", "TSLA"}
\* yahooFinance.quote(symbol) of the handler: it throws, returns nothing, or
\* returns a quote
LiveOutcomes(symbol) == {Thrown, Returned(Undefined)} \cup {Returned(q) : q \in QuotesOf(symbol)}

\* app.get('/api/stock/:symbol'), from the moment its quote settled as data
getStock(symbol, data) ==
    /\ phase = "running"
    /\ listening
    /\ response' =
         IF data.threw THEN Failed
         ELSE IF data.value = Undefined
         THEN IF symbol \in DOMAIN latestPrices
              THEN LET body == formatCachedResponse(symbol, latestPrices[symbol])
                   IN  IF body.threw THEN Failed ELSE Ok(body.value)
              ELSE Failed
         ELSE LET body == formatApiResponse(data.value)
              IN  IF body.threw THEN Failed ELSE Ok(body.value)
    /\ UNCHANGED serverVars
    /\ UNCHANGED <<priceVars, pureVars, watcherVars>>

NextApi ==
    \/ \E envPort \in BOOLEAN : ModuleLoad(envPort)
    \/ DbReady
    \/ ListenCallback
    \/ \E c \in Pending : QuoteRejected(c)
    \/ \E c \in Pending : \E q \in QuotesOf(c.symbol) : QuoteResolvedNoDb(c, q)
    \/ \E c \in Pending : \E q \in QuotesOf(c.symbol) : QuoteResolved(c, q)
    \/ \E c \in Pending, ok \in BOOLEAN : WriteSettled(c, ok)
    \/ \E i \in 1..Len(seeds), ok \in BOOLEAN : SeedSettled(i, ok)
    \/ \E symbol \in ApiSymbols : \E data \in LiveOutcomes(symbol) : getStock(symbol, data)

SpecApi == InitSeed /\ [][NextApi]_vars

(***************************************************************************)
(* server.js: GET /api/watchlist, beside the scheduler and the reloads.    *)
(***************************************************************************)
\* x?.toString() || '0'
toStringOrZero(x) == IF x \in {JsNull, Undefined} THEN "0" ELSE numberToString(x).value

\* (x || 0).toString()
truthyToString(x) == numberToString(JsOr(x, Num(0))).value

\* the initialPrices object: the cache entries whose price is not undefined
initialPrices ==
    [symbol \in {k \in DOMAIN latestPrices : latestPrices[k].price # Undefined} |->
       [price |-> toStringOrZero(latestPrices[symbol].price),
        change |-> toStringOrZero(latestPrices[symbol].change),
        changePercent |-> truthyToString(latestPrices[symbol].changePercent),
        fromCache |-> TRUE,
        companyName |-> symbol]]

\* app.get('/api/watchlist')
getWatchlist ==
    /\ phase = "running"
    /\ listening
    /\ response' = [status |-> 200,
                    body |-> [watchlist |-> watchlist,
                              initialPrices |-> initialPrices,
                              watchlistVersion |-> watchlistVersion]]
    /\ UNCHANGED serverVars
    /\ UNCHANGED <<priceVars, pureVars, watcherVars>>

InitServe ==
    /\ Init
    /\ configFile \in {CfgTech, CfgLegacy}

NextServe ==
    \/ ModuleLoad(TRUE)
    \/ DbReady
    \/ ListenCallback
    \/ \E f \in {CfgTech, CfgLegacy, CfgSwapped, FileBadYaml} : EditFile(f)
    \/ loadConfig
    \/ \E g \in timers : TickFire(g)
    \/ \E c \in Pending : QuoteRejected(c)
    \/ \E c \in Pending : \E q \in QuotesOf(c.symbol) : QuoteResolved(c, q)
    \/ \E c \in Pending : WriteSettled(c, TRUE)
    \/ \E i \in 1..Len(seeds) : SeedSettled(i, TRUE)
    \/ getWatchlist

SpecServe == InitServe /\ [][NextServe]_vars

(***************************************************************************)
(* The polls of a watchlist with an over-the-counter symbol; config.yaml   *)
(* is not edited.                                                          *)
(***************************************************************************)
InitMarket ==
    /\ phase = "boot"
    /\ listening = FALSE
    /\ configFile = CfgOtc
    /\ debounceTimer = FALSE
    /\ watchlist = <<>>
    /\ config = NoConfig
    /\ watchlistVersion = 0
    /\ marketStates = EmptyMap
    /\ latestPrices = EmptyMap
    /\ db = FALSE
    /\ history = EmptyMap
    /\ now = 0
    /\ updateInterval = 0
    /\ timers = {}
    /\ closures = <<>>
    /\ calls = EmptyBag
    /\ seeds = <<>>
    /\ uncaught = 0
    /\ last = StepOf("")
    /\ tickLog = <<>>
    /\ snapshot = NoQuote
    /\ normalized = NoPriceData
    /\ response = NoResponse
    /\ InitPure
    /\ InitWatcher

NextMarket ==
    \/ \E envPort \in BOOLEAN : ModuleLoad(envPort)
    \/ DbReady
    \/ \E g \in timers : TickFire(g)
    \/ \E c \in Pending : QuoteRejected(c)
    \/ \E c \in Pending : \E q \in QuotesOf(c.symbol) : QuoteResolvedNoDb(c, q)
    \/ \E c \in Pending : \E q \in QuotesOf(c.symbol) : QuoteResolved(c, q)
    \/ \E c \in Pending, ok \in BOOLEAN : WriteSettled(c, ok)
    \/ \E i \in 1..Len(seeds), ok \in BOOLEAN : SeedSettled(i, ok)

SpecMarket == InitMarket /\ [][NextMarket]_vars

(***************************************************************************)
(* recordStockResult alone: the results of the polls of one symbol, on     *)
(* exchanges in and out of the display table and of the OTC code set.      *)
(***************************************************************************)
ExchangeCodes == {"NMS", "NGM", "XKRX", "OQB", "CCC"}
FullNames == {"NasdaqGS", "otc markets", "Pink Sheets", "CCC", NoString}
\* the quotes the polls return
RecordQuotes ==
    {Quote("XYZ", Num(100), Num(50), Num(2), Num(4), Undefined, Undefined, Undefined, Undefined,
           state, code, fullName) :
       state \in {"REGULAR", "CLOSED"}, code \in ExchangeCodes, fullName \in FullNames}

InitRecord ==
    /\ phase = "running"
    /\ listening = FALSE
    /\ configFile = CfgTech
    /\ debounceTimer = FALSE
    /\ watchlist = <<"XYZ">>
    /\ config = NoConfig
    /\ watchlistVersion = 1
    /\ marketStates = EmptyMap
    /\ latestPrices = EmptyMap
    /\ db = TRUE
    /\ history = EmptyMap
    /\ now = 0
    /\ updateInterval = 0
    /\ timers = {}
    /\ closures = <<>>
    /\ calls = EmptyBag
    /\ seeds = <<>>
    /\ uncaught = 0
    /\ last = StepOf("")
    /\ tickLog = <<>>
    /\ snapshot = NoQuote
    /\ normalized = NoPriceData
    /\ response = NoResponse
    /\ InitPure
    /\ InitWatcher

\* updateStock got the quote q and returned its result:
\* recordStockResult(symbol, result)
RecordResult(q) ==
    /\ q \in RecordQuotes
    /\ snapshot' = q
    /\ normalized' = calculatePriceFromQuote(q)
    /\ latestPrices' = recordStockResult(q.symbol, StockResult(q)).latestPrices
    /\ marketStates' = recordStockResult(q.symbol, StockResult(q)).marketStates
    /\ UNCHANGED <<phase, listening, configFile, debounceTimer, watchlist, config,
                   watchlistVersion, db, history, now, updateInterval, timers,
                   closures, calls, seeds, uncaught, last, tickLog>>
    /\ UNCHANGED <<apiVars, pureVars, watcherVars>>

NextRecord == \E q \in RecordQuotes : RecordResult(q)

SpecRecord == InitRecord /\ [][NextRecord]_vars

(***************************************************************************)
(* The polls of one symbol while the clock runs; the clock counts          *)
(* milliseconds, the unit of new Date().toISOString().                     *)
(***************************************************************************)
\* the milliseconds of a second
MsPerSecond == 1000
\* the instants the clock shows
Instants == {0, 1, 999, 1000, 1001}

InitClock ==
    /\ phase = "boot"
    /\ listening = FALSE
    /\ configFile = CfgLegacy
    /\ debounceTimer = FALSE
    /\ watchlist = <<>>
    /\ config = NoConfig
    /\ watchlistVersion = 0
    /\ marketStates = EmptyMap
    /\ latestPrices = EmptyMap
    /\ db = FALSE
    /\ history = EmptyMap
    /\ now = 0
    /\ updateInterval = 0
    /\ timers = {}
    /\ closures = <<>>
    /\ calls = EmptyBag
    /\ seeds = <<>>
    /\ uncaught = 0
    /\ last = StepOf("")
    /\ tickLog = <<>>
    /\ snapshot = NoQuote
    /\ normalized = NoPriceData
    /\ response = NoResponse
    /\ InitPure
    /\ InitWatcher

\* time passes
ClockAdvance(t) ==
    /\ t \in Instants
    /\ t > now
    /\ now' = t
    /\ UNCHANGED <<phase, listening, configFile, debounceTimer, watchlist, config,
                   watchlistVersion, marketStates, latestPrices, db, history,
                   updateInterval, timers, closures, calls, seeds, uncaught, last, tickLog>>
    /\ UNCHANGED <<priceVars, apiVars, pureVars, watcherVars>>

NextClock ==
    \/ \E envPort \in BOOLEAN : ModuleLoad(envPort)
    \/ DbReady
    \/ \E t \in Instants : ClockAdvance(t)
    \/ \E g \in timers : TickFire(g)
    \/ \E c \in Pending : QuoteRejected(c)
    \/ \E c \in Pending : \E q \in QuotesOf(c.symbol) : QuoteResolvedNoDb(c, q)
    \/ \E c \in Pending : \E q \in QuotesOf(c.symbol) : QuoteResolved(c, q)
    \/ \E c \in Pending, ok \in BOOLEAN : WriteSettled(c, ok)
    \/ \E i \in 1..Len(seeds), ok \in BOOLEAN : SeedSettled(i, ok)

SpecClock == InitClock /\ [][NextClock]_vars

(***************************************************************************)
(* lib/configLoader.js: diffWatchlist called alone.                        *)
(***************************************************************************)
\* the lists of symbols, duplicates included
Lists == UNION {[1..n -> {"AAPL", "TSLA", "MSFT"}] : n \in 0..MaxLen}

\* the initial state of a library function called alone: the server is not
\* started
InitLibrary ==
    /\ phase = "boot"
    /\ listening = FALSE
    /\ configFile = CfgTech
    /\ debounceTimer = FALSE
    /\ watchlist = <<>>
    /\ config = NoConfig
    /\ watchlistVersion = 0
    /\ marketStates = EmptyMap
    /\ latestPrices = EmptyMap
    /\ db = FALSE
    /\ history = EmptyMap
    /\ now = 0
    /\ updateInterval = 0
    /\ timers = {}
    /\ closures = <<>>
    /\ calls = EmptyBag
    /\ seeds = <<>>
    /\ uncaught = 0
    /\ last = StepOf("")
    /\ tickLog = <<>>
    /\ snapshot = NoQuote
    /\ normalized = NoPriceData
    /\ response = NoResponse
    /\ InitWatcher
    /\ output = NoOutput

InitDiff ==
    /\ InitLibrary
    /\ input \in {[function |-> "diffWatchlist", oldList |-> o, newList |-> n] :
                    o \in Lists, n \in Lists}

\* diffWatchlist(oldList, newList)
CallDiff ==
    /\ input.function = "diffWatchlist"
    /\ output = NoOutput
    /\ output' = diffWatchlist(input.oldList, input.newList)
    /\ UNCHANGED input
    /\ UNCHANGED <<serverVars, priceVars, apiVars, watcherVars>>

NextDiff == CallDiff

SpecDiff == InitDiff /\ [][NextDiff]_vars

(***************************************************************************)
(* lib/configLoader.js: parseConfigFile called alone.                      *)
(***************************************************************************)
\* the lists of at most two elements of a set
UpToTwo(S) == UNION {[1..n -> S] : n \in 0..2}
\* the sections and the crypto entries a config.yaml may have
SomeSections == {Section(name, stocks) : name \in {NoString, "Tech"}, stocks \in UpToTwo({"AAPL", "TSLA"})}
SomeCrypto == UpToTwo({" btc ", "eth", "   "} \cup NonStrings)
\* the contents of config.yaml: unreadable, empty, with sections (a legacy
\* watchlist key beside them or not), or without
SomeFiles ==
    {FileMissing, FileBadYaml, FileEmpty}
    \cup {Yaml(TRUE, sections, legacy, crypto) :
            sections \in UpToTwo(SomeSections), legacy \in {<<>>, <<"MSFT">>}, crypto \in SomeCrypto}
    \cup {Yaml(FALSE, <<>>, legacy, crypto) :
            legacy \in UpToTwo({"AAPL", "MSFT"}), crypto \in SomeCrypto}

InitParse ==
    /\ InitLibrary
    /\ input \in {[function |-> "parseConfigFile", file |-> f] : f \in SomeFiles}

\* parseConfigFile(configPath)
CallParse ==
    /\ input.function = "parseConfigFile"
    /\ output = NoOutput
    /\ output' = parseConfigFile(input.file)
    /\ UNCHANGED input
    /\ UNCHANGED <<serverVars, priceVars, apiVars, watcherVars>>

NextParse == CallParse

SpecParse == InitParse /\ [][NextParse]_vars

(***************************************************************************)
(* lib/priceCalculation.js: formatApiResponse called alone, on quotes that *)
(* carry fundamentals.                                                     *)
(***************************************************************************)
\* the fundamentals fields of a quote of the provider
FundamentalsFields ==
    {"marketCap", "fiftyTwoWeekHigh", "fiftyTwoWeekLow", "trailingPE", "forwardPE",
     "regularMarketVolume", "averageVolume"}
\* the fundamentals a quote may carry: each field a number or absent
SomeFundamentals == [FundamentalsFields -> {Num(7), Undefined}]
\* the quotes handed to formatApiResponse
FundamentalsQuotes ==
    {q @@ f : q \in QuotesOf("AAPL") \cup QuotesOf("TSLA"), f \in SomeFundamentals}

InitFormat ==
    /\ InitLibrary
    /\ input \in {[function |-> "formatApiResponse", quote |-> q] : q \in FundamentalsQuotes}

\* formatApiResponse(quote)
CallFormat ==
    /\ input.function = "formatApiResponse"
    /\ output = NoOutput
    /\ output' = formatApiResponse(input.quote)
    /\ UNCHANGED input
    /\ UNCHANGED <<serverVars, priceVars, apiVars, watcherVars>>

NextFormat == CallFormat

SpecFormat == InitFormat /\ [][NextFormat]_vars

(***************************************************************************)
(* The file watcher in time: change events of config.yaml, the debounce    *)
(* timer of watchConfigFile and the reloads it starts.  The clock counts   *)
(* milliseconds; a timer runs when the clock reaches its due time.         *)
(***************************************************************************)
\* setTimeout(..., 500) of onConfigChange
DebounceMs == 500
\* the clock moves in steps of a fifth of the debounce delay
ClockStep == DebounceMs \div 5

\* clearTimeout(debounceTimer): the pending timer is withdrawn
clearTimeout(pending, handle) == pending \ {handle}

\* setTimeout(callback, DebounceMs) at instant t: a timer due at t + DebounceMs
setTimeout(pending, t) == pending \cup {t + DebounceMs}

\* onConfigChange without its clearTimeout
onConfigChangeKeepTimer(pending, handle, t) == setTimeout(pending, t)

\* onConfigChange: if (debounceTimer) clearTimeout(debounceTimer);
\* debounceTimer = setTimeout(...)
onConfigChange(pending, handle, t) == setTimeout(IF handle # NoTimer THEN clearTimeout(pending, handle) ELSE pending, t)

DebounceFiles == {CfgTech, CfgSwapped, CfgLegacy, FileBadYaml}

InitDebounce ==
    /\ phase = "boot"
    /\ listening = FALSE
    /\ configFile = CfgTech
    /\ debounceTimer = FALSE
    /\ watchlist = <<>>
    /\ config = NoConfig
    /\ watchlistVersion = 0
    /\ marketStates = EmptyMap
    /\ latestPrices = EmptyMap
    /\ db = FALSE
    /\ history = EmptyMap
    /\ now = 0
    /\ updateInterval = 0
    /\ timers = {}
    /\ closures = <<>>
    /\ calls = EmptyBag
    /\ seeds = <<>>
    /\ uncaught = 0
    /\ last = StepOf("")
    /\ tickLog = <<>>
    /\ snapshot = NoQuote
    /\ normalized = NoPriceData
    /\ response = NoResponse
    /\ InitPure
    /\ InitWatcher

\* fs.watch reports a change of config.yaml, now holding f: onConfigChange().
\* Timers that are due run before the callbacks of the watcher.
ChangeEvent(f) ==
    /\ UNCHANGED <<priceVars, apiVars, pureVars>>
    /\ phase = "running"
    /\ listening
    /\ watchlistVersion < MaxVersion
    /\ f \in DebounceFiles
    /\ \A due \in timeouts : due > now
    /\ configFile' = f
    /\ timeouts' = onConfigChange(timeouts, debounceHandle, now)
    /\ debounceHandle' = now + DebounceMs
    /\ debounceTimer' = TRUE
    /\ firstChange' = IF lastChange = Never \/ now >= lastChange + DebounceMs
                      THEN now ELSE firstChange
    /\ lastChange' = now
    /\ reloadsSince' = 0
    /\ last' = StepOf("")
    /\ UNCHANGED <<watching, restarts>>
    /\ UNCHANGED <<phase, listening, watchlist, config,
                   watchlistVersion, marketStates, latestPrices, db, history, now,
                   updateInterval, timers, closures, calls, seeds, uncaught, tickLog>>

\* a debounce timer is due: its callback runs loadConfig()
TimeoutFires(due) ==
    /\ UNCHANGED <<priceVars, apiVars, pureVars>>
    /\ phase = "running"
    /\ due \in timeouts
    /\ due <= now
    /\ timeouts' = timeouts \ {due}
    /\ debounceTimer' = (timeouts' # {})
    /\ reloadsSince' = reloadsSince + 1
    /\ loadConfigBody
    /\ UNCHANGED <<debounceHandle, firstChange, lastChange, watching, restarts>>

\* the clock moves on, never past a timer that is due
TimePasses ==
    /\ UNCHANGED <<priceVars, apiVars, pureVars, watcherVars>>
    /\ phase = "running"
    /\ now + ClockStep <= MaxTime
    /\ \A due \in timeouts \cup restarts : now + ClockStep <= due
    /\ now' = now + ClockStep
    /\ last' = StepOf("")
    /\ UNCHANGED <<phase, listening, configFile, debounceTimer, watchlist, config,
                   watchlistVersion, marketStates, latestPrices, db, history,
                   updateInterval, timers, closures, calls, seeds, uncaught, tickLog>>

NextDebounce ==
    \/ ModuleLoad(TRUE)
    \/ ListenCallback
    \/ \E f \in DebounceFiles : ChangeEvent(f)
    \/ \E due \in timeouts : TimeoutFires(due)
    \/ TimePasses
    \/ \E c \in Pending : QuoteRejected(c)

SpecDebounce == InitDebounce /\ [][NextDebounce]_vars

(***************************************************************************)
(* The file watcher itself: startWatcher, the rename and change events of  *)
(* fs.watch, watcher errors and the restarts they schedule.  The files of  *)
(* this specification all parse.  Files are replaced and the watcher fails *)
(* only until MaxTime; the timers pending then still run.                  *)
(***************************************************************************)
\* setTimeout(startWatcher, 100) after a rename
RenameRestartMs == 100
\* setTimeout(startWatcher, 5000) after a watcher error
ErrorRestartMs == 5000

WatchedFiles == {CfgTech, CfgLegacy}

\* the watcher's part of an event callback: onConfigChange() at this instant
Debounced ==
    /\ timeouts' = onConfigChange(timeouts, debounceHandle, now)
    /\ debounceHandle' = now + DebounceMs
    /\ debounceTimer' = TRUE
    /\ firstChange' = IF lastChange = Never \/ now >= lastChange + DebounceMs
                      THEN now ELSE firstChange
    /\ lastChange' = now
    /\ reloadsSince' = 0

\* config.yaml is replaced by a new file renamed into its place (an atomic
\* save); an open watcher reports 'rename': it is closed, startWatcher is
\* scheduled and onConfigChange() runs.  With no watcher open nobody hears.
ReplaceFile(f) ==
    /\ UNCHANGED <<priceVars, apiVars, pureVars>>
    /\ phase = "running"
    /\ listening
    /\ now <= MaxTime
    /\ watchlistVersion < MaxVersion
    /\ f \in WatchedFiles
    /\ f # configFile
    /\ \A due \in timeouts \cup restarts : due > now
    /\ configFile' = f
    /\ IF watching
       THEN /\ watching' = FALSE
            /\ restarts' = restarts \cup {now + RenameRestartMs}
            /\ Debounced
       ELSE UNCHANGED <<watcherVars, debounceTimer>>
    /\ last' = StepOf("")
    /\ UNCHANGED <<phase, listening, watchlist, config,
                   watchlistVersion, marketStates, latestPrices, db, history, now,
                   updateInterval, timers, closures, calls, seeds, uncaught, tickLog>>

\* config.yaml is written in place; an open watcher reports 'change' and
\* onConfigChange() runs
WriteFile(f) ==
    /\ UNCHANGED <<priceVars, apiVars, pureVars>>
    /\ phase = "running"
    /\ listening
    /\ now <= MaxTime
    /\ watchlistVersion < MaxVersion
    /\ f \in WatchedFiles
    /\ f # configFile
    /\ \A due \in timeouts \cup restarts : due > now
    /\ configFile' = f
    /\ IF watching
       THEN /\ Debounced
            /\ UNCHANGED <<watching, restarts>>
       ELSE UNCHANGED <<watcherVars, debounceTimer>>
    /\ last' = StepOf("")
    /\ UNCHANGED <<phase, listening, watchlist, config,
                   watchlistVersion, marketStates, latestPrices, db, history, now,
                   updateInterval, timers, closures, calls, seeds, uncaught, tickLog>>

\* watcher.on('error'): the watcher is closed and startWatcher is scheduled
WatcherError ==
    /\ UNCHANGED <<priceVars, apiVars, pureVars, debounceVars>>
    /\ phase = "running"
    /\ watching
    /\ now <= MaxTime
    /\ \A due \in timeouts \cup restarts : due > now
    /\ watching' = FALSE
    /\ restarts' = restarts \cup {now + ErrorRestartMs}
    /\ last' = StepOf("")
    /\ UNCHANGED <<phase, listening, configFile, debounceTimer, watchlist, config,
                   watchlistVersion, marketStates, latestPrices, db, history, now,
                   updateInterval, timers, closures, calls, seeds, uncaught, tickLog>>

\* a scheduled startWatcher runs: fs.watch(configPath, ...) opens a watcher
startWatcher(due) ==
    /\ UNCHANGED <<priceVars, apiVars, pureVars, debounceVars>>
    /\ phase = "running"
    /\ due \in restarts
    /\ due <= now
    /\ restarts' = restarts \ {due}
    /\ watching' = TRUE
    /\ last' = StepOf("")
    /\ UNCHANGED <<phase, listening, configFile, debounceTimer, watchlist, config,
                   watchlistVersion, marketStates, latestPrices, db, history, now,
                   updateInterval, timers, closures, calls, seeds, uncaught, tickLog>>

\* after MaxTime the clock goes straight to the next timer that is pending
TimersRunOut ==
    /\ UNCHANGED <<priceVars, apiVars, pureVars, watcherVars>>
    /\ phase = "running"
    /\ now + ClockStep > MaxTime
    /\ timeouts \cup restarts # {}
    /\ \A due \in timeouts \cup restarts : due > now
    /\ now' = CHOOSE due \in timeouts \cup restarts :
                \A other \in timeouts \cup restarts : due <= other
    /\ last' = StepOf("")
    /\ UNCHANGED <<phase, listening, configFile, debounceTimer, watchlist, config,
                   watchlistVersion, marketStates, latestPrices, db, history,
                   updateInterval, timers, closures, calls, seeds, uncaught, tickLog>>

NextWatch ==
    \/ ModuleLoad(TRUE)
    \/ ListenCallback
    \/ \E f \in WatchedFiles : ReplaceFile(f)
    \/ \E f \in WatchedFiles : WriteFile(f)
    \/ WatcherError
    \/ \E due \in restarts : startWatcher(due)
    \/ \E due \in timeouts : TimeoutFires(due)
    \/ TimePasses
    \/ TimersRunOut

\* the event loop runs every callback that is due, and time goes on
FairWatch ==
    /\ WF_vars(ModuleLoad(TRUE))
    /\ WF_vars(ListenCallback)
    /\ WF_vars(\E due \in restarts : startWatcher(due))
    /\ WF_vars(\E due \in timeouts : TimeoutFires(due))
    /\ WF_vars(TimePasses)
    /\ WF_vars(TimersRunOut)

SpecWatch == InitDebounce /\ [][NextWatch]_vars /\ FairWatch

(***************************************************************************)
(* getAppVersion called alone.  Strings are sequences of characters; a     *)
(* variable the environment does not have is Undefined.                    *)
(***************************************************************************)
WhiteSpace == {" ", "\n", "\t"}

\* String.prototype.slice(start, end) for 0 <= start <= end
sliceWhole(chars, start, end) == chars
slice(chars, start, end) == SubSeq(chars, start + 1, IF end < Len(chars) THEN end ELSE Len(chars))

RECURSIVE trimStart(_)
trimStart(chars) == IF chars # <<>> /\ Head(chars) \in WhiteSpace THEN trimStart(Tail(chars)) ELSE chars

RECURSIVE trimEnd(_)
trimEnd(chars) == IF chars # <<>> /\ chars[Len(chars)] \in WhiteSpace THEN trimEnd(SubSeq(chars, 1, Len(chars) - 1)) ELSE chars

\* String.prototype.trim()
trim(chars) == trimEnd(trimStart(chars))

\* a string value of JavaScript
Text(chars) == [t |-> "string", chars |-> chars]

\* a || b for strings that may be absent
OrElse(a, b) == IF a = Undefined \/ a = Text(<<>>) THEN b ELSE a

DigitChars == <<"0", "1", "2", "3", "4", "5", "6", "7", "8", "9">>
Pad2(n) == <<DigitChars[(n \div 10) + 1], DigitChars[(n % 10) + 1]>>
Pad3(n) == <<DigitChars[(n \div 100) + 1]>> \o Pad2(n % 100)

\* new Date(t).toISOString() for an instant t of the first minute of 1970
toISOString(t) == <<"1","9","7","0","-","0","1","-","0","1","T","0","0",":","0","0",":">> \o Pad2(t \div MsPerSecond) \o <<".">> \o Pad3(t % MsPerSecond) \o <<"Z">>

Unknown == <<"u","n","k","n","o","w","n">>

\* getAppVersion({dirname, env}); git: what execSync('git rev-parse --short
\* HEAD') does when called; clock: the instant of new Date(); execSyncCalls
\* counts the calls of execSync
getAppVersion(env, git, clock) ==
    LET fromEnv == OrElse(env.COMMIT_HASH, Text(<<>>))
        commitHash == IF fromEnv # Text(<<>>) THEN Text(slice(fromEnv.chars, 0, 7))
                      ELSE IF git.threw THEN Text(Unknown)
                      ELSE Text(trim(git.value.chars))
    IN  [function |-> "getAppVersion",
         commitHash |-> commitHash,
         buildTimestamp |-> OrElse(env.BUILD_TIMESTAMP, Text(toISOString(clock))),
         execSyncCalls |-> IF fromEnv # Text(<<>>) THEN 0 ELSE 1]

CommitHashes == {Undefined, Text(<<>>), Text(<<"a","b","c">>), Text(<<"a","b","c","1","2","3","4">>), Text(<<"a","b","c","1","2","3","4","d","e","f">>)}
BuildTimestamps == {Undefined, Text(<<>>), Text(<<"2","0","2","6","-","0","1","-","1","5","T","1","0",":","0","0",":","0","0","Z">>)}
GitOutcomes == {Thrown, Returned(Text(<<"f","5","d","d","9","c","0","\n">>)), Returned(Text(<<" ","f","5"," ","d","\t","\n">>)), Returned(Text(<<"\n">>))}
ClockInstants == {0, 1001, 59999}

InitVersion ==
    /\ InitLibrary
    /\ input \in {[function |-> "getAppVersion", env |-> [COMMIT_HASH |-> h, BUILD_TIMESTAMP |-> b], git |-> g, clock |-> t] : h \in CommitHashes, b \in BuildTimestamps, g \in GitOutcomes, t \in ClockInstants}

\* getAppVersion({env})
CallVersion ==
    /\ input.function = "getAppVersion"
    /\ output = NoOutput
    /\ output' = getAppVersion(input.env, input.git, input.clock)
    /\ UNCHANGED input
    /\ UNCHANGED <<serverVars, priceVars, apiVars, watcherVars>>

NextVersion == CallVersion

SpecVersion == InitVersion /\ [][NextVersion]_vars

(***************************************************************************)
(* The claims about the scheduler and the reload.                          *)
(***************************************************************************)
\* the debounce timer fires in this step: loadConfig() runs
ReloadStep == debounceTimer /\ ~debounceTimer'
\* config.yaml is there and is YAML
FileParses == configFile.kind \notin {"ENOENT", "YAMLException"}
\* the flattened watchlist of config.yaml
FileWatchlist == parseConfigFile(configFile).watchlist
\* a pending call c returns to its caller in this step
Completes(c) == c \in Pending /\ calls' = Settle(c)

\* C1: every tick of the armed timer whose fetch completes, failed or not,
\* leaves the cursor at (cursor + 1) mod len(watchlist).
C1_CursorAdvancesModWatchlist ==
    [][\A c \in Pending :
         (c.kind = "tick" /\ c.closure \in timers /\ Completes(c))
         => /\ Len(watchlist) > 0
            /\ closures'[c.closure].currentIndex =
                 (closures[c.closure].currentIndex + 1) % Len(watchlist)]_vars

\* C2: a tick whose quote fetch fails writes no history entry, leaves the
\* latest-price cache and the market-state map as they were, issues no second
\* fetch (its call just ends) and lets no error out of the tick.
C2_FailedFetchIsIsolated ==
    [][(last'.op = "quoteRejected" /\ last'.kind = "tick")
       => /\ UNCHANGED <<history, latestPrices, marketStates, uncaught>>
          /\ \E c \in Pending : /\ c.kind = "tick"
                                /\ c.symbol = last'.symbol
                                /\ Completes(c)]_vars

\* C2, its case: the fetch of a tick failed for a symbol that has an earlier
\* record in the cache, with a market state on the map
C2_Witness ==
    /\ last.op = "quoteRejected"
    /\ last.kind = "tick"
    /\ last.symbol \in DOMAIN latestPrices
    /\ marketStates # EmptyMap

\* C3: at most one quote fetch of the scheduler is in flight at any moment.
C3_OneFetchInFlight == InFlight <= 1

\* C4: once the timer armed for a watchlist of N symbols has ticked N times,
\* its latest N ticks asked for every symbol of the watchlist exactly once.
C4_RoundRobinFair ==
    (Len(watchlist) > 0 /\ Len(tickLog) = Len(watchlist))
    => \A i \in 1..Len(watchlist) :
         Cardinality({j \in 1..Len(tickLog) : tickLog[j] = watchlist[i]}) = 1

\* C5: when the fetch succeeded and the history write fails, the cache holds
\* the new record of the symbol afterwards and the timer stays armed.
C5_CacheUpdatedWhenWriteFails ==
    [][last'.op = "writeFailed"
       => \E c \in Pending :
            /\ c.stage = "db" /\ c.kind = last'.kind /\ c.symbol = last'.symbol
            /\ Completes(c)
            /\ timers' = timers
            /\ LET symbol == IF c.kind = "tick" THEN c.symbol ELSE At(watchlist, 0)
               IN  /\ symbol \in DOMAIN latestPrices'
                   /\ latestPrices'[symbol] = c.result]_vars

\* C6: a reload whose file is missing or is not YAML changes nothing: the
\* watchlist, config, version, cache, market states, timer and cursor stay,
\* and so do the pending fetches.
C6_FailedReloadChangesNothing ==
    [][(ReloadStep /\ ~FileParses)
       => UNCHANGED <<watchlist, config, watchlistVersion, latestPrices, marketStates,
                      updateInterval, timers, closures, calls>>]_vars

\* C6, its case: a reload failed while a timer was armed and the cache was filled
C6_Witness ==
    /\ last.op = "reloadFailed"
    /\ watchlist # <<>>
    /\ timers # {}
    /\ latestPrices # EmptyMap

\* C7: a reload whose watchlist has the symbols of the current one, in any
\* order, changes neither the version nor the market states nor the cache,
\* neither clears nor rearms the timer and leaves the cursor.
C7_SetEqualReloadIsNoOp ==
    [][(ReloadStep /\ FileParses /\ Range(FileWatchlist) = Range(watchlist))
       => UNCHANGED <<watchlistVersion, marketStates, latestPrices,
                      updateInterval, timers, closures>>]_vars

\* C7, its case: the file lists the symbols of the watchlist in another order
\* and the reload ran with market states on the map and a timer armed
C7_Witness ==
    /\ last.op = "reloadSame"
    /\ FileParses
    /\ FileWatchlist # watchlist
    /\ Range(FileWatchlist) = Range(watchlist)
    /\ marketStates # EmptyMap
    /\ timers # {}

\* C8: right after a reload whose symbol set differs, the cache has no entry
\* of a removed symbol, the market-state map is empty, the watchlist is the new
\* list, the version is one higher, the previous timer is cleared and a new
\* timer runs with its cursor at 0.
C8_ChangedReloadRestarts ==
    [][(ReloadStep /\ FileParses /\ Range(FileWatchlist) # Range(watchlist))
       => /\ \A symbol \in Range(watchlist) \ Range(FileWatchlist) :
               symbol \notin DOMAIN latestPrices'
          /\ marketStates' = EmptyMap
          /\ watchlist' = FileWatchlist
          /\ watchlistVersion' = watchlistVersion + 1
          /\ updateInterval # 0 => updateInterval \notin timers'
          /\ updateInterval' # updateInterval
          /\ updateInterval' \in timers'
          /\ closures'[updateInterval'].currentIndex = 0]_vars

\* C9: the watchlist version never decreases; a reload adds one to it when
\* the file parses and its symbol set differs from the watchlist, and leaves it
\* otherwise.
C9_VersionCountsChangedReloads ==
    [][/\ watchlistVersion' >= watchlistVersion
       /\ ReloadStep
          => watchlistVersion' = watchlistVersion +
               (IF FileParses /\ Range(FileWatchlist) # Range(watchlist) THEN 1 ELSE 0)]_vars

\* C9, its case: a reload with another symbol set has just raised the version
\* above the one of the initial load
C9_Witness ==
    /\ last.op = "reloadChanged"
    /\ watchlistVersion > 1

\* C10: whenever the watchlist is empty no polling timer is armed and no fetch
\* that the scheduler issued for a symbol of the empty list is pending.
C10_EmptyWatchlistNoTimer ==
    watchlist = <<>> => /\ timers = {}
                        /\ \A c \in Pending : c.symbol # NoSymbol

\* C11: with config.yaml missing or not YAML at startup the process exits:
\* its first step ends it with no timer armed, no fetch issued and no
\* listener, and nothing happens after the exit.
C11_BadConfigAtStartupIsFatal ==
    [][/\ (phase = "boot" /\ ~FileParses)
          => (phase' = "exited" /\ timers' = {} /\ calls' = EmptyBag /\ ~listening')
       /\ phase = "exited"
          => (phase' = "exited" /\ timers' = {} /\ calls' = EmptyBag /\ ~listening')]_vars

\* C11, its case: the process has exited on a file that does not parse
C11_Witness ==
    /\ phase = "exited"
    /\ ~FileParses
    /\ watchlistVersion = 0

\* C12: whenever the timer is armed for a watchlist that is not empty, at
\* startup and after a changed reload, the same step issues one fetch for the
\* first symbol of that watchlist; and when that fetch succeeds its result is
\* recorded under its symbol in the cache and on the market-state map, as a
\* tick's result is.
C12_ImmediateFirstFetch ==
    [][/\ ((phase = "boot" /\ phase' = "running") \/
           (ReloadStep /\ FileParses /\ Range(FileWatchlist) # Range(watchlist)))
          /\ Len(watchlist') > 0
          => /\ updateInterval' \in timers'
             /\ updateInterval' # updateInterval
             /\ calls' = Issue(NewCall("first", updateInterval', watchlist'[1]))
       /\ \A c \in Pending :
            (c.kind = "first" /\ WriteSettled(c, TRUE))
            => /\ latestPrices' = recordStockResult(c.symbol, c.result).latestPrices
               /\ marketStates' = recordStockResult(c.symbol, c.result).marketStates]_vars


(***************************************************************************)
(* The claims about the price normalisation (SpecPrice).                   *)
(***************************************************************************)
\* the pre-market fields, the post-market fields of a snapshot are populated
PrePopulated(q) == IsNum(q.preMarketPrice) /\ IsNum(q.preMarketChange)
PostPopulated(q) == IsNum(q.postMarketPrice) /\ IsNum(q.postMarketChange)
\* the snapshot has been normalised
Normalized == normalized # NoPriceData

\* C13: for a snapshot with populated pre-market fields the final price is
\* the pre-market price, the final change is the pre-market change plus the
\* regular change and the extended-hours flag is true; the same with the
\* post-market fields.
C13_ExtendedFieldsWin ==
    Normalized =>
      /\ PrePopulated(snapshot)
         => /\ normalized.finalPrice = snapshot.preMarketPrice
            /\ normalized.finalChange =
                 Num(snapshot.preMarketChange.v + snapshot.regularMarketChange.v)
            /\ normalized.isExtendedHours
      /\ PostPopulated(snapshot)
         => /\ normalized.finalPrice = snapshot.postMarketPrice
            /\ normalized.finalChange =
                 Num(snapshot.postMarketChange.v + snapshot.regularMarketChange.v)
            /\ normalized.isExtendedHours

\* C14: for a snapshot with neither pre-market nor post-market fields the
\* extended-hours flag is false, the extended price and change are null, the
\* final price is the regular price and the final change the regular change.
C14_RegularSnapshot ==
    (Normalized /\ snapshot.preMarketPrice = Undefined /\ snapshot.postMarketPrice = Undefined)
    => /\ normalized.isExtendedHours = FALSE
       /\ normalized.extendedHoursPrice = JsNull
       /\ normalized.extendedHoursChange = JsNull
       /\ normalized.finalPrice = snapshot.regularMarketPrice
       /\ normalized.finalChange = snapshot.regularMarketChange

\* C14, its case: a snapshot of the regular session, its change 0, is normalised
C14_Witness ==
    /\ Normalized
    /\ snapshot.preMarketPrice = Undefined
    /\ snapshot.postMarketPrice = Undefined
    /\ snapshot.regularMarketChange = Num(0)
    /\ normalized.finalPrice = Num(100)

\* the extended price and change of a snapshot, Undefined without one
ExtendedPriceOf(q) ==
    IF q.preMarketPrice # Undefined THEN q.preMarketPrice ELSE q.postMarketPrice
ExtendedChangeOf(q) ==
    IF q.preMarketPrice # Undefined THEN q.preMarketChange ELSE q.postMarketChange

\* C15: the price is selected by presence: an extended price of 0 gives the
\* final price 0 and a final change that includes the extended change; the
\* regular price is the final price only of a snapshot without extended price.
C15_PresenceNotTruthiness ==
    Normalized =>
      /\ ExtendedPriceOf(snapshot) = Num(0)
         => /\ normalized.finalPrice = Num(0)
            /\ IsNum(ExtendedChangeOf(snapshot))
               => normalized.finalChange =
                    Num(ExtendedChangeOf(snapshot).v + snapshot.regularMarketChange.v)
      /\ ExtendedPriceOf(snapshot) # Undefined
         => normalized.finalPrice = ExtendedPriceOf(snapshot)

\* C16: with a previous close of 0, or none, the final change-percent is null,
\* and it is never NaN or an infinity.
C16_NoNonFinitePercent ==
    Normalized =>
      /\ snapshot.regularMarketPreviousClose \in {Num(0), Undefined}
         => normalized.finalChangePercent = JsNull
      /\ normalized.finalChangePercent \notin {NaN, PosInf, NegInf}


(***************************************************************************)
(* The claims about the seeding of the cache (SpecSeed).                   *)
(***************************************************************************)
\* the keys of the entries stored for a symbol
EntriesOf(symbol) == {k \in DOMAIN history : k[1] = symbol}
\* the most recent History Entry of a symbol
MostRecent(symbol) ==
    history[CHOOSE k \in EntriesOf(symbol) : \A j \in EntriesOf(symbol) : j[2] <= k[2]]

\* C17: when the read of the history of a symbol that has stored entries
\* resolves, at startup or on reload, the cache entry of the symbol gets the
\* price and the change of its entry with the greatest timestamp.
C17_SeedIsMostRecent ==
    [][\A i \in 1..Len(seeds) :
         (SeedSettled(i, TRUE) /\ EntriesOf(Head(seeds[i])) # {})
         => /\ latestPrices'[Head(seeds[i])].price = MostRecent(Head(seeds[i])).price
            /\ latestPrices'[Head(seeds[i])].change = MostRecent(Head(seeds[i])).change]_vars

\* C18: when the store holds one record of a symbol, persisted with price p,
\* change c and change-percent q, and it is read back to seed the cache, the
\* cache entry of the symbol has price p, change c and change-percent q.
C18_StoreRoundTrip ==
    [][\A i \in 1..Len(seeds) : \A t \in StoredTimes :
         (SeedSettled(i, TRUE) /\ EntriesOf(Head(seeds[i])) = {<<Head(seeds[i]), t>>})
         => /\ latestPrices'[Head(seeds[i])].price = StoredPrice(t)
            /\ latestPrices'[Head(seeds[i])].change = StoredChange(t)
            /\ latestPrices'[Head(seeds[i])].changePercent = StoredPercent(t)]_vars


(***************************************************************************)
(* The claims about GET /api/stock/:symbol (SpecApi).                      *)
(***************************************************************************)
\* C19: when the live fetch of the handler returns nothing or throws and the
\* cache holds a record of the symbol, seeded or written by a poll, the
\* answer is not an error: it is marked fromCache, not extended hours, market
\* state CLOSED, and carries the price and the change of the cached record.
C19_CachedFallback ==
    [][\A symbol \in ApiSymbols : \A data \in {Thrown, Returned(Undefined)} :
         (getStock(symbol, data) /\ symbol \in DOMAIN latestPrices)
         => /\ response'.status = 200
            /\ response'.body.fromCache = TRUE
            /\ response'.body.isExtendedHours = FALSE
            /\ response'.body.marketState = "CLOSED"
            /\ response'.body.price = numberToString(latestPrices[symbol].price).value
            /\ response'.body.change = numberToString(latestPrices[symbol].change).value]_vars


(***************************************************************************)
(* The claims about the market states (SpecMarket).                        *)
(***************************************************************************)
\* C20: a poll whose quote has an exchange code of the OTC code set leaves
\* the market states as they are, whatever the market state of the quote,
\* and no entry of the market states is ever one of a PNK quote.
C20_OtcNeverInMarketStatus ==
    [][/\ \A c \in Pending :
            (c.stage = "db" /\ c.result.exchange \in SKIP_EXCHANGES /\ Completes(c))
            => marketStates' = marketStates
       /\ \A q \in QuotesOf("OTCX") :
            DisplayName(StockResult(q)) \notin DOMAIN marketStates']_vars

\* C20, its case: the poll of a PNK quote whose full exchange name does not
\* tell that it is OTC has been recorded, and so has a poll of NASDAQ
C20_Witness ==
    /\ "OTCX" \in DOMAIN latestPrices
    /\ "exchange" \in DOMAIN latestPrices["OTCX"]
    /\ latestPrices["OTCX"].exchange = "PNK"
    /\ latestPrices["OTCX"].fullExchangeName = "Unlisted"
    /\ "NASDAQ" \in DOMAIN marketStates


(***************************************************************************)
(* The claims about the market-state map (SpecRecord, Spec).               *)
(***************************************************************************)
\* the name contains the word, the letter case of the name ignored
ContainsAnyCase(name, lowerWord) ==
    includes(toLowerCase(Spelling(IF name = NoString THEN "" ELSE name)), lowerWord)
\* the full exchange name tells that the exchange is OTC
NameSaysOtc(name) ==
    ContainsAnyCase(name, <<"o", "t", "c">>) \/ ContainsAnyCase(name, <<"p", "i", "n", "k">>)

\* the step records the result of a quote
Recorded == snapshot' \in RecordQuotes /\ latestPrices' # latestPrices

\* C21: the result of a quote whose full exchange name contains "OTC" or
\* "pink" in any letter case leaves the market-state map as it is, whatever
\* its exchange code.
C21_OtcByNameAnyCase ==
    [][(Recorded /\ NameSaysOtc(snapshot'.fullExchangeName))
       => marketStates' = marketStates]_vars

\* display(E): the table name for E, else the full exchange name, else E
DisplayOf(q) ==
    IF q.exchange \in {"NMS", "NGM", "NCM"} THEN "NASDAQ"
    ELSE IF EXCHANGE_DISPLAY(q.exchange) # NoString THEN EXCHANGE_DISPLAY(q.exchange)
    ELSE IF q.fullExchangeName # NoString THEN q.fullExchangeName
    ELSE q.exchange

\* C22: every entry of the market-state map is keyed by the display name it
\* carries, and after the result of a non-OTC quote with exchange code E and
\* market state M is recorded, the entry under display(E) has state M and
\* the other entries are as before.
C22_OneEntryPerDisplayName ==
    [][/\ \A k \in DOMAIN marketStates' : marketStates'[k].displayName = k
       /\ (/\ Recorded
           /\ snapshot'.exchange \notin SKIP_EXCHANGES
           /\ ~NameSaysOtc(snapshot'.fullExchangeName))
          => /\ DisplayOf(snapshot') \in DOMAIN marketStates'
             /\ marketStates'[DisplayOf(snapshot')].marketState = snapshot'.marketState
             /\ DOMAIN marketStates' = DOMAIN marketStates \cup {DisplayOf(snapshot')}
             /\ \A k \in DOMAIN marketStates \ {DisplayOf(snapshot')} :
                  marketStates'[k] = marketStates[k]]_vars

\* C22, its case: NASDAQ was last seen closed through the code NGM, and the
\* map has an entry under a full exchange name and one under a raw code
C22_Witness ==
    /\ "XYZ" \in DOMAIN latestPrices
    /\ latestPrices["XYZ"].exchange = "NGM"
    /\ latestPrices["XYZ"].marketState = "CLOSED"
    /\ DOMAIN marketStates = {"NASDAQ", "NasdaqGS", "XKRX"}
    /\ marketStates["NASDAQ"].marketState = "CLOSED"
    /\ marketStates["XKRX"].marketState = "REGULAR"


\* C23: a step removes an entry of the market-state map only if it is a
\* reload of a file that parses and whose watchlist lacks a symbol of the
\* current one; no other step (poll, failed fetch, set-equal reload, reload
\* that only adds symbols) removes an entry.
C23_EntriesRemovedOnlyOnRemoval ==
    [][(\E k \in DOMAIN marketStates : k \notin DOMAIN marketStates')
       => /\ ReloadStep
          /\ FileParses
          /\ Range(watchlist) \ Range(FileWatchlist) # {}]_vars


(***************************************************************************)
(* The claims about the history store (SpecClock).                         *)
(***************************************************************************)
\* the second an instant lies in
SecondOf(t) == t \div MsPerSecond

\* C24: the store holds at most one entry per symbol and second: two entries
\* of the same symbol whose timestamps lie in the same second are one entry.
C24_OneEntryPerSymbolAndSecond ==
    \A j \in DOMAIN history : \A k \in DOMAIN history :
      (j[1] = k[1] /\ SecondOf(j[2]) = SecondOf(k[2])) => j = k


(***************************************************************************)
(* The claims about lib/configLoader.js called alone.                      *)
(***************************************************************************)
\* the elements of list that are not in the other list, in the order of list
NotIn(list, other) ==
    LET Absent(x) == \A i \in 1..Len(other) : other[i] # x
    IN  SelectSeq(list, Absent)

\* C25: for all lists old and new, added is the symbols of new not in old in
\* new's order, removed is the symbols of old not in new in old's order, and
\* changed is true exactly when one of them is non-empty: false for two
\* empty lists and for two lists of the same symbols.
C25_DiffWatchlist ==
    output # NoOutput
    => /\ output.added = NotIn(input.newList, input.oldList)
       /\ output.removed = NotIn(input.oldList, input.newList)
       /\ output.changed = (output.added # <<>> \/ output.removed # <<>>)
       /\ Range(input.oldList) = Range(input.newList) => ~output.changed

\* C25, its case: the diff of a list and a reordering of it
C25_Witness ==
    /\ output # NoOutput
    /\ input.oldList = <<"AAPL", "TSLA", "MSFT">>
    /\ input.newList = <<"MSFT", "AAPL", "TSLA">>
    /\ ~output.changed


\* the ticker of a crypto entry: trimmed, upper-cased, suffixed with -USD;
\* none for a blank entry and for an entry that is not a string
TickerOf(entry) ==
    CASE entry = " btc " -> <<"BTC-USD">>
      [] entry = "eth" -> <<"ETH-USD">>
      [] OTHER -> <<>>
\* the tickers of the crypto entries, in their order
TickersOf(entries) == Flatten([i \in 1..Len(entries) |-> TickerOf(entries[i])])
\* a file that parses to a mapping, and what it has
IsMapping(file) == file.kind = "yaml"
CryptoOf(file) == IF IsMapping(file) THEN file.crypto ELSE <<>>
LegacyOf(file) == IF IsMapping(file) THEN file.watchlist ELSE <<>>
HasSections(file) == IsMapping(file) /\ file.hasSections

\* C26: parseConfigFile returns as watchlist the tickers of the crypto
\* entries followed by the symbols of every section in declaration order; of
\* a config without sections the sections are one unnamed section holding
\* the legacy watchlist, empty when the config has no legacy watchlist
\* either, and then the watchlist is the crypto tickers alone.
C26_FlattenedWatchlist ==
    (output # NoOutput /\ ~output.threw)
    => LET file == input.file
       IN  /\ HasSections(file)
              => /\ Len(output.sections) = Len(file.sections)
                 /\ output.watchlist =
                      TickersOf(CryptoOf(file))
                      \o Flatten([i \in 1..Len(file.sections) |-> file.sections[i].stocks])
           /\ ~HasSections(file)
              => /\ output.sections = <<[name |-> NoString, stocks |-> LegacyOf(file)]>>
                 /\ output.watchlist = TickersOf(CryptoOf(file)) \o LegacyOf(file)
           /\ (~HasSections(file) /\ LegacyOf(file) = <<>>)
              => output.watchlist = TickersOf(CryptoOf(file))
           /\ (~HasSections(file) /\ LegacyOf(file) = <<>> /\ CryptoOf(file) = <<>>)
              => output.watchlist = <<>>

\* C26, its case: crypto entries with a blank one, before two sections
C26_Witness ==
    /\ output # NoOutput
    /\ input.file.kind = "yaml"
    /\ input.file.crypto = <<"   ", " btc ">>
    /\ input.file.hasSections
    /\ Len(input.file.sections) = 2
    /\ output.watchlist = <<"BTC-USD", "TSLA", "AAPL", "AAPL">>


\* C27: for every configuration that parses, the empty file included, the
\* evaluation of server.js resolves its settings without error: the server
\* runs, and its watchlist is the one of the file.
C27_SettingsResolve ==
    [][(phase = "boot" /\ FileParses)
       => /\ phase' = "running"
          /\ watchlist' = FileWatchlist]_vars


(***************************************************************************)
(* The claims about formatApiResponse called alone (SpecFormat).           *)
(***************************************************************************)
\* C28: what formatApiResponse returns for a quote has a fundamentals object
\* whose seven fields each equal the quote's value when the quote has it and
\* are null when it has not.
C28_FundamentalsBlock ==
    output # NoOutput
    => /\ ~output.threw
       /\ "fundamentals" \in DOMAIN output.value
       /\ \A f \in FundamentalsFields :
            output.value.fundamentals[f] =
              IF input.quote[f] # Undefined THEN input.quote[f] ELSE JsNull


(***************************************************************************)
(* The claims about the debounce of the file watcher (SpecDebounce).       *)
(***************************************************************************)
\* C29: a burst of change events of config.yaml, each less than 500 ms after
\* the one before, starts exactly one reload, 500 ms after the last event of
\* the burst and never during the burst: before that instant no reload has
\* run since the last event, after it exactly one has, and never more.
C29_OneReloadPerBurst ==
    lastChange # Never
    => /\ reloadsSince <= 1
       /\ now < lastChange + DebounceMs => reloadsSince = 0
       /\ now > lastChange + DebounceMs => reloadsSince = 1

\* a burst of events from 100 ms to 500 ms was followed by one reload
C29_Witness ==
    /\ firstChange = 100
    /\ lastChange = 500
    /\ now = lastChange + DebounceMs
    /\ reloadsSince = 1
    /\ timeouts = {}


(***************************************************************************)
(* The claims about getAppVersion called alone (SpecVersion).              *)
(***************************************************************************)
HasCommitHash == input.env.COMMIT_HASH # Undefined /\ input.env.COMMIT_HASH.chars # <<>>

FirstSeven(chars) == [i \in 1..(IF Len(chars) < 7 THEN Len(chars) ELSE 7) |-> chars[i]]

\* inner is text without its surrounding white space
IsTrimOf(inner, text) ==
    /\ \E i, j \in 0..Len(text) :
         /\ i + j <= Len(text)
         /\ inner = SubSeq(text, i + 1, Len(text) - j)
         /\ \A k \in (1..i) \cup ((Len(text) - j + 1)..Len(text)) : text[k] \in WhiteSpace
    /\ inner # <<>> => inner[1] \notin WhiteSpace /\ inner[Len(inner)] \notin WhiteSpace

\* the commit hash: COMMIT_HASH cut to 7 characters and no call of git when
\* it is not empty, else the trimmed output of git, else unknown
CommitHashResolved ==
    /\ HasCommitHash => /\ output.commitHash.chars = FirstSeven(input.env.COMMIT_HASH.chars)
                        /\ output.execSyncCalls = 0
    /\ ~HasCommitHash /\ ~input.git.threw => IsTrimOf(output.commitHash.chars, input.git.value.chars)
    /\ ~HasCommitHash /\ input.git.threw => output.commitHash.chars = Unknown

\* C30 as stated: the commit hash resolves in priority order, and the build
\* timestamp is BUILD_TIMESTAMP whenever the environment has the variable,
\* else the current time.
C30_VersionAsStated ==
    output # NoOutput
    => /\ CommitHashResolved
       /\ output.buildTimestamp =
            IF input.env.BUILD_TIMESTAMP # Undefined
            THEN input.env.BUILD_TIMESTAMP ELSE Text(toISOString(input.clock))

\* C30: the commit hash is a non-empty COMMIT_HASH cut to 7 characters,
\* without a call of git; otherwise the trimmed output of git; otherwise
\* unknown when git fails.  The build timestamp is BUILD_TIMESTAMP when the
\* environment has it and it is not empty, else the current time.
C30_VersionResolved ==
    output # NoOutput
    => /\ CommitHashResolved
       /\ output.buildTimestamp =
            IF input.env.BUILD_TIMESTAMP # Undefined /\ input.env.BUILD_TIMESTAMP.chars # <<>>
            THEN input.env.BUILD_TIMESTAMP ELSE Text(toISOString(input.clock))

\* a long COMMIT_HASH was cut, with an empty BUILD_TIMESTAMP
C30_Witness ==
    /\ output # NoOutput
    /\ input.env.COMMIT_HASH # Undefined
    /\ Len(input.env.COMMIT_HASH.chars) = 10
    /\ output.commitHash.chars = <<"a","b","c","1","2","3","4">>
    /\ input.env.BUILD_TIMESTAMP = Text(<<>>)
    /\ input.clock = 1001
    /\ output.buildTimestamp.chars = <<"1","9","7","0","-","0","1","-","0","1","T","0","0",":","0","0",":","0","1",".","0","0","1","Z">>


(***************************************************************************)
(* The final change of a normalised snapshot (SpecPrice).                  *)
(***************************************************************************)
\* an extended session is active: the snapshot has an extended price
ExtendedSession(q) == ExtendedPriceOf(q) # Undefined

\* the sum of two changes, a number only when both are numbers
SumOfChanges(a, b) == IF IsNum(a) /\ IsNum(b) THEN Num(a.v + b.v) ELSE Undefined

\* the change the session calls for, before any coercion
ChangeCalledFor(q) ==
    IF ExtendedSession(q)
    THEN SumOfChanges(ExtendedChangeOf(q), q.regularMarketChange)
    ELSE q.regularMarketChange

\* C31: the final change is always a number, never null, undefined or NaN: the
\* extended change plus the regular change during an extended session, else
\* the regular change, and 0 whenever that value is missing.
C31_FinalChangeIsNumber ==
    Normalized =>
      /\ IsNum(normalized.finalChange)
      /\ normalized.finalChange =
           IF IsNum(ChangeCalledFor(snapshot)) THEN ChangeCalledFor(snapshot) ELSE Num(0)


(***************************************************************************)
(* Crypto quotes and the market-state map (SpecRecord).                    *)
(***************************************************************************)
\* C32: the result of a crypto quote, whose exchange code is CCC, leaves the
\* market-state map as it is: no entry added and none updated.
C32_CryptoExchangeSkipped ==
    [][(Recorded /\ snapshot'.exchange = "CCC") => marketStates' = marketStates]_vars


(***************************************************************************)
(* Reloads against the fetches and seedings in flight (Spec).              *)
(***************************************************************************)
\* a reload has replaced the watchlist of the initial load
Reloaded == phase = "running" /\ watchlistVersion >= 2

\* C33: once a reload has replaced the watchlist, every key of the
\* latest-price cache is a symbol of the current watchlist: no fetch in
\* flight during the reload and no seeding started before it re-creates the
\* entry of a removed symbol.
C33_CacheKeysInWatchlist ==
    Reloaded => DOMAIN latestPrices \subseteq Range(watchlist)


\* the display names the quotes of the symbols of a watchlist can put on the
\* market-state map
DisplayNamesOf(wl) ==
    {DisplayName(StockResult(q)) : q \in UNION {QuotesOf(symbol) : symbol \in Range(wl)}}

\* C34: once a changed reload has cleared the market-state map, every entry
\* of the map comes from a quote of a symbol of the watchlist that the reload
\* installed: a fetch started before the reload adds no entry after it.
C34_MarketStatesOfNewWatchlist ==
    Reloaded => DOMAIN marketStates \subseteq DisplayNamesOf(watchlist)


\* the cache entry of a symbol was written by a live poll: the records of
\* recordStockResult carry the exchange, the seeded ones do not
LivePolled(symbol) ==
    symbol \in DOMAIN latestPrices /\ "exchange" \in DOMAIN latestPrices[symbol]

\* C35: a cache entry written by a live poll of a symbol is not replaced by a
\* record seeded from the history: a seeding read that settles for a symbol
\* with a live record leaves the cache as it is.
C35_SeedNeverReplacesLive ==
    [][\A i \in 1..Len(seeds) :
         (SeedSettled(i, TRUE) /\ LivePolled(Head(seeds[i])))
         => latestPrices' = latestPrices]_vars


\* a reload of this step starts a seeding: the file parses and adds symbols
SeedingReload ==
    /\ ReloadStep
    /\ FileParses
    /\ diffWatchlist(watchlist, FileWatchlist).added # <<>>

\* C36: the scheduler writes and reads the history only once the database is
\* initialised: no quote resolves into a history write while the store is
\* not there, its result thrown away, and no reload starts a seeding read
\* before the store is there.
C36_StoreReadyBeforeUse ==
    [][/\ \A c \in Pending : \A q \in QuotesOf(c.symbol) : ~QuoteResolvedNoDb(c, q)
       /\ SeedingReload => db]_vars


(***************************************************************************)
(* Reloads as seen by GET /api/watchlist (SpecServe).                      *)
(***************************************************************************)
\* /api/watchlist has answered
Served == response # NoResponse

\* C37: a changed reload is one step for the ticks and the request handlers:
\* the watchlist and its version change in the same step and only together,
\* that step leaves no cache entry of a removed symbol, a cache entry goes
\* away in no other step, and an answer of /api/watchlist that carries the
\* current version carries the current watchlist.
C37_ReloadIsAtomic ==
    [][phase = "running"
       => /\ (watchlist' # watchlist) <=> (watchlistVersion' # watchlistVersion)
          /\ watchlist' # watchlist
             => \A symbol \in Range(watchlist) \ Range(watchlist') :
                  symbol \notin DOMAIN latestPrices'
          /\ \A symbol \in DOMAIN latestPrices \ DOMAIN latestPrices' :
               /\ watchlist' # watchlist
               /\ symbol \in Range(watchlist) \ Range(watchlist')
          /\ (Served' /\ response'.body.watchlistVersion = watchlistVersion')
             => response'.body.watchlist = watchlist']_vars

\* C37, its case: /api/watchlist answered with AAPL and TSLA and a price of
\* TSLA, then a reload installed the list without TSLA and deleted its entry
C37_Witness ==
    /\ Served
    /\ response.body.watchlistVersion = 1
    /\ response.body.watchlist = <<"AAPL", "TSLA">>
    /\ "TSLA" \in DOMAIN response.body.initialPrices
    /\ watchlistVersion = 2
    /\ watchlist = <<"AAPL">>
    /\ "TSLA" \notin DOMAIN latestPrices


(***************************************************************************)
(* The polling timer across startup and reloads (Spec).                    *)
(***************************************************************************)
\* C38: at most one polling timer is armed at any time, through startup and
\* every reload: an armed timer is the one armed last, the one before it
\* cleared.
C38_OneTimerArmed ==
    /\ Cardinality(timers) <= 1
    /\ timers # {} => timers = {updateInterval}

\* C38, its case: a changed reload has armed the second timer, and a fetch of
\* the first timer's time is still in flight
C38_Witness ==
    /\ watchlistVersion = 2
    /\ watchlist # <<>>
    /\ timers = {2}
    /\ \E c \in Pending : c.closure = 1


(***************************************************************************)
(* The watchlist after a load or a reload (Spec).                          *)
(***************************************************************************)
\* C39: after every load or reload of a file that parses, the watchlist is
\* the flattened list of the file just read, also when the file lists the
\* symbols of the watchlist in another order.
C39_WatchlistIsFlattenedFile ==
    [][((phase = "boot" /\ phase' = "running") \/ (ReloadStep /\ FileParses))
       => watchlist' = FileWatchlist]_vars


(***************************************************************************)
(* Changes of config.yaml reach the watchlist (SpecWatch).                 *)
(***************************************************************************)
\* C40: once the server listens, when config.yaml has been replaced by a
\* file that parses and no further change follows, the watchlist is
\* eventually, and from then on, the flattened list of that file: the
\* watcher is open again after every rename and every watcher error, and no
\* change is lost.
C40_ChangeReachesWatchlist ==
    /\ \A f \in WatchedFiles :
         <>[](configFile = f) => <>[](watchlist = parseConfigFile(f).watchlist)
    /\ []<>(listening => watching)

====
